---------------------------- MODULE Spec2Model ----------------------------
(***************************************************************************)
(* A model of the simulation engine of the organizational digital twin:    *)
(* the messaging and negotiation subsystem of                              *)
(* src/core/communication_system.py and the day scheduler of               *)
(* src/core/organizational_simulator.py with the economic cycle of         *)
(* src/core/advanced_market.py.                                            *)
(*                                                                         *)
(* Conventions.  An optional Python value is a sequence: <<>> is None and  *)
(* <<v>> is the value v.  A reference to a Message object is its position  *)
(* in the append-only list CommunicationSystem.messages.  uuid.uuid4() is  *)
(* a fresh value: the next value of the counter uuids.  datetime.now() is  *)
(* the variable now, which the action Tick advances.  An operation that    *)
(* raises leaves the assignments it made before the raise in place and     *)
(* records the exception's name as its result.                             *)
(***************************************************************************)
EXTENDS Integers, Sequences, FiniteSets, TLC

VARIABLES
    messages,            \* CommunicationSystem.messages
    message_queues,      \* CommunicationSystem.message_queues
    notifications,       \* NotificationSystem.notifications
    meeting_rooms,       \* CommunicationSystem.meeting_rooms
    active_negotiations, \* NegotiationSystem.active_negotiations
    resolution_history,  \* NegotiationSystem.resolution_history
    dicts,               \* the callers' proposal dict objects, by identity
    uuids,               \* how many uuid4 values were drawn
    now,                 \* the wall clock read by datetime.now()
    call,                \* the last call: its name, arguments and result
    constructed,         \* whether OrganizationalSimulator.__init__ ran to its end
    simulation_day,      \* OrganizationalSimulator.simulation_day
    is_running,          \* OrganizationalSimulator.is_running
    daily_snapshots,     \* OrganizationalSimulator.daily_snapshots
    economic_cycle,      \* AdvancedMarketSimulator.economic_cycle
    virtual_customers,   \* AdvancedMarketSimulator.virtual_customers, by id
    customer_data,       \* the fields of each VirtualCustomer object
    competitive_landscape, \* AdvancedMarketSimulator.competitive_landscape
    performance_metrics, \* OrganizationalSimulator.performance_metrics
    financial_metrics,   \* OrganizationalSimulator.financial_metrics
    organizational_health, \* OrganizationalSimulator.organizational_health
    agent_memory,        \* BaseAgent.memory of an agent of the simulator: its entries' types
    agent,               \* that agent's workload, tasks, counters and personality
    decisions_archive,   \* OrganizationalMemory.decisions_archive of the simulator
    lessons_learned,     \* OrganizationalMemory.lessons_learned
    best_practices,      \* OrganizationalMemory.best_practices
    organizational_events, \* OrganizationalMemory.organizational_events
    performance_history  \* OrganizationalMemory.performance_history

commVars == <<messages, message_queues, notifications, meeting_rooms,
              active_negotiations, resolution_history, dicts, uuids>>

marketVars == <<economic_cycle, virtual_customers, customer_data,
                competitive_landscape>>

memoryVars == <<decisions_archive, lessons_learned, best_practices,
                organizational_events, performance_history>>

orgVars == <<organizational_health, agent_memory, agent, decisions_archive,
             lessons_learned, best_practices, organizational_events,
             performance_history>>

simVars == <<constructed, simulation_day, is_running, daily_snapshots,
             economic_cycle, virtual_customers, customer_data,
             competitive_landscape, performance_metrics, financial_metrics,
             organizational_health, agent_memory, agent, decisions_archive,
             lessons_learned, best_practices, organizational_events,
             performance_history>>

vars == <<messages, message_queues, notifications, meeting_rooms,
          active_negotiations, resolution_history, dicts, uuids, now, call,
          constructed, simulation_day, is_running, daily_snapshots,
          economic_cycle, virtual_customers, customer_data,
          competitive_landscape, performance_metrics, financial_metrics,
          organizational_health, agent_memory, agent, decisions_archive,
          lessons_learned, best_practices, organizational_events,
          performance_history>>

----------------------------------------------------------------------------
(* Bounds of the model. *)

MaxMessages == 3
MaxNegotiations == 1
MaxClock == 1
MaxMeetings == 1
MaxNegMessages == 4
MaxProposals == 2
MaxDays == 3
MaxCustomers == 2
MaxTicks == 2
MaxCrises == 2
MaxCrisisDays == 1
MaxOverdue == 2
MaxRecords == 2
MaxRecordings == 2
MaxRemembered == 4
MaxBacklog == 1
MaxTasks == 2

----------------------------------------------------------------------------
(* Values. *)

None == <<>>
Some(v) == <<v>>

LOW == 1
MEDIUM == 2
HIGH == 3
URGENT == 4
CRITICAL == 5
Priority == {LOW, MEDIUM, HIGH, URGENT, CRITICAL}

MessageType == {"task_assignment", "collaboration_request", "decision_notification",
                "status_update", "meeting_request", "budget_request",
                "approval_request", "general_communication", "crisis_alert"}

\* The agent ids the operations are called with, and the ids no object has.
Agents == {"CEO", "CFO"}
UnknownId == 0

\* The dict objects a caller passes as proposals: object 1 holds only JSON
\* values, object 2 holds a value json.dumps rejects (Dict[str, Any]).
DictIds == {1, 2}
Serializable(d) == d = 1
\* Resolution payloads, by value: "terms" serialises, "opaque" does not.
Resolutions == {"terms", "opaque"}
SerializableResolution(r) == r = "terms"

----------------------------------------------------------------------------
(* CommunicationSystem.send_message, as a function of the communication    *)
(* state cs = [messages, message_queues, notifications, uuids] it is       *)
(* called on; ret is the id it returns.                                    *)

CommState == [messages |-> messages, message_queues |-> message_queues,
              notifications |-> notifications, uuids |-> uuids, ret |-> None]

\* NotificationSystem.send_notification
send_notification(notifs, uu, agent_id, message, t) ==
    Append(notifs, [id |-> uu + 1, agent_id |-> agent_id,
                    message_id |-> message.id, priority |-> message.priority,
                    timestamp |-> t, acknowledged |-> FALSE])

\* Mutant of Enqueue: the message is put at the head of the queue.
EnqueueAtHead(queues, receiver_id, ref) ==
    IF receiver_id \in DOMAIN queues
    THEN [queues EXCEPT ![receiver_id] = <<ref>> \o @]
    ELSE queues @@ (receiver_id :> <<ref>>)

Enqueue(queues, receiver_id, ref) ==
    IF receiver_id \in DOMAIN queues
    THEN [queues EXCEPT ![receiver_id] = Append(@, ref)]
    ELSE queues @@ (receiver_id :> <<ref>>)

\* Mutant of NeedsNotification: HIGH itself is left out.
NeedsNotificationAboveHigh(priority) == priority > HIGH

\* if priority.value >= Priority.HIGH.value
NeedsNotification(priority) == priority >= HIGH

SendOn(cs, sender_id, receiver_id, message_type, subject, content, priority, metadata, t) ==
    LET message == [id |-> cs.uuids + 1, sender_id |-> sender_id,
                    receiver_id |-> receiver_id, message_type |-> message_type,
                    subject |-> subject, content |-> content,
                    priority |-> priority, created_at |-> t,
                    read_at |-> None, responded_at |-> None,
                    metadata |-> metadata]
        msgs == Append(cs.messages, message)
        notify == NeedsNotification(priority)
    IN  [messages |-> msgs,
         message_queues |-> Enqueue(cs.message_queues, receiver_id, Len(msgs)),
         notifications |-> IF notify
                           THEN send_notification(cs.notifications, cs.uuids + 1,
                                                  receiver_id, message, t)
                           ELSE cs.notifications,
         uuids |-> IF notify THEN cs.uuids + 2 ELSE cs.uuids + 1,
         ret |-> message.id]

\* The assignment of a communication state to the variables.
Commit(cs) ==
    /\ messages' = cs.messages
    /\ message_queues' = cs.message_queues
    /\ notifications' = cs.notifications
    /\ uuids' = cs.uuids

\* Mutant of get_messages: unread_only is ignored.
get_messages_unfiltered(msgs, queues, agent_id, unread_only) ==
    IF agent_id \in DOMAIN queues THEN queues[agent_id] ELSE <<>>

\* CommunicationSystem.get_messages
get_messages(msgs, queues, agent_id, unread_only) ==
    LET agent_messages == IF agent_id \in DOMAIN queues THEN queues[agent_id] ELSE <<>>
        Unread(ref) == msgs[ref].read_at = None
    IN  IF unread_only THEN SelectSeq(agent_messages, Unread) ELSE agent_messages

\* The position of the first message of msgs with the given id; 0 if none.
RECURSIVE FirstWithId(_, _, _)
FirstWithId(msgs, message_id, i) ==
    IF i > Len(msgs) THEN 0
    ELSE IF msgs[i].id = message_id THEN i
    ELSE FirstWithId(msgs, message_id, i + 1)

\* CommunicationSystem.mark_message_read: the first message with that id
\* and that receiver gets read_at = now.
RECURSIVE FirstForReader(_, _, _, _)
FirstForReader(msgs, message_id, reader_id, i) ==
    IF i > Len(msgs) THEN 0
    ELSE IF msgs[i].id = message_id /\ msgs[i].receiver_id = reader_id THEN i
    ELSE FirstForReader(msgs, message_id, reader_id, i + 1)

\* Mutant of MarkReadOn: the reader is not compared with the receiver.
MarkReadOnForAnyone(cs, message_id, reader_id, t) ==
    LET i == FirstWithId(cs.messages, message_id, 1)
    IN  IF i = 0 THEN [cs EXCEPT !.ret = FALSE]
        ELSE [cs EXCEPT !.messages[i].read_at = Some(t), !.ret = TRUE]

MarkReadOn(cs, message_id, reader_id, t) ==
    LET i == FirstForReader(cs.messages, message_id, reader_id, 1)
    IN  IF i = 0 THEN [cs EXCEPT !.ret = FALSE]
        ELSE [cs EXCEPT !.messages[i].read_at = Some(t), !.ret = TRUE]

\* Mutant of RespondOn: an unknown id falls back on the last message of the
\* log (the loop variable is used after the loop).
RespondOnOrLast(cs, original_message_id, response_content, sender_id, t) ==
    LET found == FirstWithId(cs.messages, original_message_id, 1)
        i == IF found = 0 THEN Len(cs.messages) ELSE found
    IN  IF i = 0 THEN [cs EXCEPT !.ret = None]
        ELSE LET marked == [cs EXCEPT !.messages[i].responded_at = Some(t)]
                 original_message == marked.messages[i]
                 sent == SendOn(marked, sender_id, original_message.sender_id,
                                "general_communication",
                                <<"Re:">> \o original_message.subject,
                                response_content, original_message.priority,
                                <<"in_reply_to", original_message_id>>, t)
             IN  [sent EXCEPT !.ret = Some(sent.ret)]

\* Mutant of RespondOn: an original that was responded to is not responded
\* to again.
RespondOnce(cs, original_message_id, response_content, sender_id, t) ==
    LET i == FirstWithId(cs.messages, original_message_id, 1)
    IN  IF i = 0 \/ cs.messages[i].responded_at # None THEN [cs EXCEPT !.ret = None]
        ELSE LET marked == [cs EXCEPT !.messages[i].responded_at = Some(t)]
                 original_message == marked.messages[i]
                 sent == SendOn(marked, sender_id, original_message.sender_id,
                                "general_communication",
                                <<"Re:">> \o original_message.subject,
                                response_content, original_message.priority,
                                <<"in_reply_to", original_message_id>>, t)
             IN  [sent EXCEPT !.ret = Some(sent.ret)]

\* CommunicationSystem.respond_to_message
RespondOn(cs, original_message_id, response_content, sender_id, t) ==
    LET i == FirstWithId(cs.messages, original_message_id, 1)
    IN  IF i = 0 THEN [cs EXCEPT !.ret = None]
        ELSE LET marked == [cs EXCEPT !.messages[i].responded_at = Some(t)]
                 original_message == marked.messages[i]
                 sent == SendOn(marked, sender_id, original_message.sender_id,
                                "general_communication",
                                <<"Re:">> \o original_message.subject,
                                response_content, original_message.priority,
                                <<"in_reply_to", original_message_id>>, t)
             IN  [sent EXCEPT !.ret = Some(sent.ret)]

\* CommunicationSystem.broadcast_message: one send_message per entry of
\* recipient_ids, in list order; ret is the list of the ids.
\* Mutant of BroadcastOn: a receiver gets one message however often the list
\* names it.
RECURSIVE BroadcastOnceEach(_, _, _, _, _, _, _, _, _)
BroadcastOnceEach(cs, sender_id, recipient_ids, message_type, subject, content, priority, t, message_ids) ==
    IF recipient_ids = <<>> THEN [cs EXCEPT !.ret = message_ids]
    ELSE LET later == SelectSeq(Tail(recipient_ids), LAMBDA r : r # Head(recipient_ids))
             sent == SendOn(cs, sender_id, Head(recipient_ids), message_type,
                            subject, content, priority, <<>>, t)
         IN  BroadcastOnceEach(sent, sender_id, later, message_type,
                               subject, content, priority, t, Append(message_ids, sent.ret))

RECURSIVE BroadcastOn(_, _, _, _, _, _, _, _, _)
BroadcastOn(cs, sender_id, recipient_ids, message_type, subject, content, priority, t, message_ids) ==
    IF recipient_ids = <<>> THEN [cs EXCEPT !.ret = message_ids]
    ELSE LET sent == SendOn(cs, sender_id, Head(recipient_ids), message_type,
                            subject, content, priority, <<>>, t)
         IN  BroadcastOn(sent, sender_id, Tail(recipient_ids), message_type,
                         subject, content, priority, t, Append(message_ids, sent.ret))

\* The invitations of CommunicationSystem.create_meeting.
RECURSIVE InviteOn(_, _, _, _, _, _)
InviteOn(cs, organizer_id, participant_ids, subject, meeting_id, t) ==
    IF participant_ids = <<>> THEN cs
    ELSE InviteOn(SendOn(cs, organizer_id, Head(participant_ids), "meeting_request",
                         <<"Meeting Invitation:">> \o subject, "invitation", MEDIUM,
                         <<"meeting_id", meeting_id>>, t),
                  organizer_id, Tail(participant_ids), subject, meeting_id, t)

\* NotificationSystem.acknowledge_notification
RECURSIVE FirstNotification(_, _, _)
FirstNotification(notifs, notification_id, i) ==
    IF i > Len(notifs) THEN 0
    ELSE IF notifs[i].id = notification_id THEN i
    ELSE FirstNotification(notifs, notification_id, i + 1)

----------------------------------------------------------------------------
(* The operations of CommunicationSystem.  Neither it nor the             *)
(* NegotiationSystem holds a reference to the simulator.                   *)

\* The record of a call that returned ret (None: <<>>, a value v: <<v>>)
\* after it completed the given calls of its own, in that order, ...
ReturnedAfter(op, args, ret, steps) ==
    call' = [op |-> op, args |-> args, ret |-> ret, raised |-> "", steps |-> steps]

\* ... and of a call that raised after them.
ThrewAfter(op, args, exception, steps) ==
    call' = [op |-> op, args |-> args, ret |-> None, raised |-> exception,
             steps |-> steps]

Returned(op, args, ret) == ReturnedAfter(op, args, ret, <<>>)

Threw(op, args, exception) == ThrewAfter(op, args, exception, <<>>)

\* A call on the communication or the negotiation system.
Called(op, args, ret) == Returned(op, args, ret) /\ UNCHANGED simVars
Raised(op, args, exception) == Threw(op, args, exception) /\ UNCHANGED simVars

send_message(sender_id, receiver_id, message_type, subject, content, priority, metadata) ==
    LET cs == SendOn(CommState, sender_id, receiver_id, message_type, subject,
                     content, priority, metadata, now)
    IN  /\ Commit(cs)
        /\ Called("send_message", <<sender_id, receiver_id, priority>>, Some(cs.ret))
        /\ UNCHANGED <<meeting_rooms, active_negotiations, resolution_history, dicts, now>>

mark_message_read(message_id, reader_id) ==
    LET cs == MarkReadOn(CommState, message_id, reader_id, now)
    IN  /\ Commit(cs)
        /\ Called("mark_message_read", <<message_id, reader_id>>, Some(cs.ret))
        /\ UNCHANGED <<meeting_rooms, active_negotiations, resolution_history, dicts, now>>

respond_to_message(original_message_id, response_content, sender_id) ==
    LET cs == RespondOn(CommState, original_message_id, response_content, sender_id, now)
    IN  /\ Commit(cs)
        /\ Called("respond_to_message", <<original_message_id, sender_id>>, cs.ret)
        /\ UNCHANGED <<meeting_rooms, active_negotiations, resolution_history, dicts, now>>

broadcast_message(sender_id, recipient_ids, message_type, subject, content, priority) ==
    LET cs == BroadcastOn(CommState, sender_id, recipient_ids, message_type, subject,
                          content, priority, now, <<>>)
    IN  /\ Commit(cs)
        /\ Called("broadcast_message", <<sender_id, recipient_ids, priority>>, Some(cs.ret))
        /\ UNCHANGED <<meeting_rooms, active_negotiations, resolution_history, dicts, now>>

create_meeting(organizer_id, participant_ids, subject, agenda, scheduled_time) ==
    LET meeting_id == uuids + 1
        meeting == [id |-> meeting_id, organizer |-> organizer_id,
                    participants |-> participant_ids, subject |-> subject,
                    agenda |-> agenda, scheduled_time |-> scheduled_time,
                    status |-> "scheduled"]
        cs == InviteOn([CommState EXCEPT !.uuids = meeting_id], organizer_id,
                       participant_ids, subject, meeting_id, now)
    IN  /\ meeting_rooms' = meeting_rooms @@ (meeting_id :> meeting)
        /\ Commit(cs)
        /\ Called("create_meeting", <<organizer_id, participant_ids>>, Some(meeting_id))
        /\ UNCHANGED <<active_negotiations, resolution_history, dicts, now>>

acknowledge_notification(notification_id) ==
    LET i == FirstNotification(notifications, notification_id, 1)
    IN  /\ notifications' = IF i = 0 THEN notifications
                            ELSE [notifications EXCEPT ![i].acknowledged = TRUE]
        /\ Called("acknowledge_notification", <<notification_id>>, Some(i # 0))
        /\ UNCHANGED <<messages, message_queues, meeting_rooms, active_negotiations,
                       resolution_history, dicts, uuids, now>>

\* Time passes between two calls.
Tick ==
    /\ now < MaxClock
    /\ now' = now + 1
    /\ Called("tick", <<>>, None)
    /\ UNCHANGED commVars

----------------------------------------------------------------------------
(* The operations of NegotiationSystem.  json.dumps raises TypeError on a   *)
(* dict that holds a value it cannot serialise; the f-string that calls it  *)
(* is an argument of send_message, so the raise comes after the            *)
(* negotiation was stored and before any message is sent.                  *)

\* Mutant of Without: the archived negotiation is left in the active set.
WithoutDeleting(negotiations, negotiation_id) == negotiations

\* del self.active_negotiations[negotiation_id]
Without(negotiations, negotiation_id) ==
    [n \in DOMAIN negotiations \ {negotiation_id} |-> negotiations[n]]

\* Mutant of Resolved: the resolution payload is not stored.
ResolvedWithoutPayload(negotiation, resolution, t) ==
    [negotiation EXCEPT !.status = "resolved", !.resolved_at = Some(t)]

\* The negotiation as resolve_negotiation archives it.
Resolved(negotiation, resolution, t) ==
    [negotiation EXCEPT !.status = "resolved", !.resolution = Some(resolution),
                        !.resolved_at = Some(t)]

\* The receiver add_counter_proposal notifies.
OtherParty(negotiation, agent_id) ==
    IF agent_id = negotiation.initiator THEN negotiation.other_party
    ELSE negotiation.initiator

initiate_negotiation(initiator_id, other_party_id, topic, initial_proposal) ==
    LET negotiation_id == uuids + 1
        negotiation == [id |-> negotiation_id, initiator |-> initiator_id,
                        other_party |-> other_party_id, topic |-> topic,
                        status |-> "active", proposals |-> <<initial_proposal>>,
                        created_at |-> now, resolution |-> None,
                        resolved_at |-> None]
        cs == SendOn([CommState EXCEPT !.uuids = negotiation_id], initiator_id,
                     other_party_id, "collaboration_request",
                     <<"Negotiation Request:", topic>>, <<"Proposal:", initial_proposal>>,
                     HIGH, <<"negotiation_id", negotiation_id>>, now)
    IN  /\ active_negotiations' = active_negotiations @@ (negotiation_id :> negotiation)
        /\ IF Serializable(initial_proposal)
           THEN /\ Commit(cs)
                /\ Called("initiate_negotiation", <<>>, Some(negotiation_id))
           ELSE /\ uuids' = negotiation_id
                /\ UNCHANGED <<messages, message_queues, notifications>>
                /\ Raised("initiate_negotiation", <<>>, "TypeError")
        /\ UNCHANGED <<meeting_rooms, resolution_history, dicts, now>>

\* add_counter_proposal on an id that is not in the active set.
CounterProposalRefused(negotiation_id, agent_id, proposal) ==
    /\ Called("add_counter_proposal", <<negotiation_id>>, Some(FALSE))
    /\ UNCHANGED <<commVars, now>>

\* add_counter_proposal on an active negotiation.
CounterProposalAdded(negotiation_id, agent_id, proposal) ==
    LET negotiation == active_negotiations[negotiation_id]
        cs == SendOn(CommState, agent_id, OtherParty(negotiation, agent_id),
                     "general_communication",
                     <<"Counter-proposal:", negotiation.topic>>,
                     <<"New proposal:", proposal>>, HIGH,
                     <<"negotiation_id", negotiation_id>>, now)
    IN  /\ dicts' = [dicts EXCEPT ![proposal] =
                        [proposed_by |-> Some(agent_id), timestamp |-> Some(now)]]
        /\ active_negotiations' =
               [active_negotiations EXCEPT ![negotiation_id].proposals =
                    Append(@, proposal)]
        /\ IF Serializable(proposal)
           THEN /\ Commit(cs)
                /\ Called("add_counter_proposal", <<negotiation_id>>, Some(TRUE))
           ELSE /\ UNCHANGED <<messages, message_queues, notifications, uuids>>
                /\ Raised("add_counter_proposal", <<negotiation_id>>, "TypeError")
        /\ UNCHANGED <<meeting_rooms, resolution_history, now>>

add_counter_proposal(negotiation_id, agent_id, proposal) ==
    IF negotiation_id \notin DOMAIN active_negotiations
    THEN CounterProposalRefused(negotiation_id, agent_id, proposal)
    ELSE CounterProposalAdded(negotiation_id, agent_id, proposal)

\* Mutant of ResolveRefused: an id found in the history is resolved again.
ResolveRefusedRearchives(negotiation_id, resolution) ==
    LET found == {i \in 1..Len(resolution_history) :
                      resolution_history[i].id = negotiation_id}
    IN  IF found = {}
        THEN /\ Called("resolve_negotiation", <<negotiation_id, resolution>>, Some(FALSE))
             /\ UNCHANGED <<commVars, now>>
        ELSE /\ resolution_history' =
                    Append(resolution_history,
                           [resolution_history[CHOOSE i \in found : TRUE]
                                EXCEPT !.resolution = Some(resolution)])
             /\ Called("resolve_negotiation", <<negotiation_id, resolution>>, Some(TRUE))
             /\ UNCHANGED <<messages, message_queues, notifications, meeting_rooms,
                            active_negotiations, dicts, uuids, now>>

\* resolve_negotiation on an id that is not in the active set.
ResolveRefused(negotiation_id, resolution) ==
    /\ Called("resolve_negotiation", <<negotiation_id, resolution>>, Some(FALSE))
    /\ UNCHANGED <<commVars, now>>

\* resolve_negotiation on an active negotiation.
ResolveArchived(negotiation_id, resolution) ==
    LET negotiation == Resolved(active_negotiations[negotiation_id], resolution, now)
        subject == <<"Negotiation Resolved:", negotiation.topic>>
        first == SendOn(CommState, "system", negotiation.initiator,
                        "decision_notification", subject,
                        <<"Resolution:", resolution>>, HIGH, <<>>, now)
        cs == SendOn(first, "system", negotiation.other_party,
                     "decision_notification", subject,
                     <<"Resolution:", resolution>>, HIGH, <<>>, now)
    IN  /\ resolution_history' = Append(resolution_history, negotiation)
        /\ active_negotiations' = Without(active_negotiations, negotiation_id)
        /\ IF SerializableResolution(resolution)
           THEN /\ Commit(cs)
                /\ Called("resolve_negotiation", <<negotiation_id, resolution>>, Some(TRUE))
           ELSE /\ UNCHANGED <<messages, message_queues, notifications, uuids>>
                /\ Raised("resolve_negotiation", <<negotiation_id, resolution>>, "TypeError")
        /\ UNCHANGED <<meeting_rooms, dicts, now>>

resolve_negotiation(negotiation_id, resolution) ==
    IF negotiation_id \notin DOMAIN active_negotiations
    THEN ResolveRefused(negotiation_id, resolution)
    ELSE ResolveArchived(negotiation_id, resolution)

----------------------------------------------------------------------------
(* The day scheduler of OrganizationalSimulator, with the economic cycle    *)
(* and the customer population of its AdvancedMarketSimulator.             *)
(*                                                                         *)
(* OrganizationalSimulator.__init__ as written raises TypeError at line    *)
(* 31, where NegotiationSystem() is called without its argument: the       *)
(* object it leaves has simulation_day, is_running, simulation_speed,      *)
(* communication_system and organizational_memory and nothing else         *)
(* (constructed = FALSE), and every read of another attribute raises       *)
(* AttributeError.  constructed = TRUE is the object with every field as   *)
(* lines 24 to 63 assign it.  The amounts are integers: money in whole     *)
(* dollars, the market share in thousandths.  Of the agents one is kept:    *)
(* its memory, workload, tasks, counters and personality.                  *)
(*                                                                         *)
(* A float is an integer count of thousandths (One is 1.0), a quotient is  *)
(* rounded to the nearest thousandth, and a random.uniform(a, b) draw is   *)
(* one of the listed values of [a, b].  A float that may be NaN is the     *)
(* tuple <<"float", v>> or <<"nan">>.                                      *)

\* Config.INITIAL_BUDGET, financial_metrics["monthly_burn_rate"] and the
\* days of a month in _update_financial_metrics
INITIAL_BUDGET == 1000000
MonthlyBurnRate == 150000
DaysPerMonth == 30
\* min(0.1, market_share + 0.001), in thousandths
MarketShareCap == 100
\* The ends of random.uniform(5000, 25000)
DailyRevenues == {5000, 25000}

\* The phase_duration each phase must exceed before it may end.
GrowthPeriods == 24
BoomPeriods == 12
RecessionPeriods == 18
RecoveryPeriods == 15

\* The phase that follows a phase, and how long a phase lasts at least.
NextPhase(phase) ==
    CASE phase = "growth" -> "boom"
      [] phase = "boom" -> "recession"
      [] phase = "recession" -> "recovery"
      [] phase = "recovery" -> "growth"
      [] OTHER -> phase

PhasePeriods(phase) ==
    CASE phase = "growth" -> GrowthPeriods
      [] phase = "boom" -> BoomPeriods
      [] phase = "recession" -> RecessionPeriods
      [] phase = "recovery" -> RecoveryPeriods

\* The phase after advance_cycle's transition logic; drawn is
\* random.random() < p.
ResolvedPhase(cycle, drawn) ==
    IF /\ cycle.current_phase # "stagnation"
       /\ cycle.phase_duration + 1 > PhasePeriods(cycle.current_phase)
       /\ drawn
    THEN NextPhase(cycle.current_phase)
    ELSE cycle.current_phase

\* The gdp_growth values drawn in a phase: the ends of its random.uniform.
GdpGrowthDraws(phase) ==
    CASE phase = "growth" -> {20, 40}
      [] phase = "boom" -> {40, 70}
      [] phase = "recession" -> {-30, 10}
      [] phase = "recovery" -> {10, 30}
      [] OTHER -> {-10, 10}

\* The ranges of the random.uniform calls of _update_economic_indicators
\* in a phase, as <<low, high>>.
IndicatorRanges(phase) ==
    CASE phase = "growth" ->
             [gdp_growth |-> <<20, 40>>, unemployment_rate |-> <<30, 60>>,
              interest_rates |-> <<20, 60>>, tech_sector_performance |-> <<700, 900>>]
      [] phase = "boom" ->
             [gdp_growth |-> <<40, 70>>, unemployment_rate |-> <<20, 40>>,
              interest_rates |-> <<10, 40>>, tech_sector_performance |-> <<800, 1000>>]
      [] phase = "recession" ->
             [gdp_growth |-> <<-30, 10>>, unemployment_rate |-> <<60, 120>>,
              interest_rates |-> <<0, 20>>, tech_sector_performance |-> <<300, 600>>]
      [] phase = "recovery" ->
             [gdp_growth |-> <<10, 30>>, unemployment_rate |-> <<50, 80>>,
              interest_rates |-> <<10, 30>>, tech_sector_performance |-> <<600, 800>>]
      [] OTHER ->
             [gdp_growth |-> <<-10, 10>>, unemployment_rate |-> <<50, 70>>,
              interest_rates |-> <<20, 40>>, tech_sector_performance |-> <<500, 700>>]

\* What _update_economic_indicators may draw in a phase: each of its four
\* indicators at an end of its range.
IndicatorDraws(phase) ==
    LET ranges == IndicatorRanges(phase)
        Ends(range) == {range[1], range[2]}
    IN  [gdp_growth : Ends(ranges.gdp_growth),
         unemployment_rate : Ends(ranges.unemployment_rate),
         interest_rates : Ends(ranges.interest_rates),
         tech_sector_performance : Ends(ranges.tech_sector_performance)]

\* The draws with gdp_growth at either end and the other indicators at the
\* low end of their range.
GdpIndicatorDraws(phase) ==
    LET ranges == IndicatorRanges(phase)
    IN  [gdp_growth : {ranges.gdp_growth[1], ranges.gdp_growth[2]},
         unemployment_rate : {ranges.unemployment_rate[1]},
         interest_rates : {ranges.interest_rates[1]},
         tech_sector_performance : {ranges.tech_sector_performance[1]}]

\* EconomicCycleSimulator._update_economic_indicators with the values it
\* draws; inflation_rate and market_volatility are not assigned.
update_economic_indicators(cycle, indicators) ==
    [cycle EXCEPT !.gdp_growth = indicators.gdp_growth,
                  !.unemployment_rate = indicators.unemployment_rate,
                  !.interest_rates = indicators.interest_rates,
                  !.tech_sector_performance = indicators.tech_sector_performance]

\* Mutant of advance_cycle: a phase may end when its duration reaches the
\* threshold.
advance_cycle_at_threshold(cycle, drawn, indicators) ==
    LET phase_duration == cycle.phase_duration + 1
    IN  IF /\ cycle.current_phase # "stagnation"
           /\ phase_duration >= PhasePeriods(cycle.current_phase)
           /\ drawn
        THEN update_economic_indicators(
                 [cycle EXCEPT !.current_phase = NextPhase(cycle.current_phase),
                               !.phase_duration = 0], indicators)
        ELSE update_economic_indicators(
                 [cycle EXCEPT !.phase_duration = phase_duration], indicators)

\* EconomicCycleSimulator.advance_cycle; drawn is random.random() < p and
\* indicators the values _update_economic_indicators draws.
advance_cycle(cycle, drawn, indicators) ==
    LET phase_duration == cycle.phase_duration + 1
    IN  IF /\ cycle.current_phase # "stagnation"
           /\ phase_duration > PhasePeriods(cycle.current_phase)
           /\ drawn
        THEN update_economic_indicators(
                 [cycle EXCEPT !.current_phase = NextPhase(cycle.current_phase),
                               !.phase_duration = 0], indicators)
        ELSE update_economic_indicators(
                 [cycle EXCEPT !.phase_duration = phase_duration], indicators)

\* EconomicCycleSimulator.get_market_conditions
get_market_conditions(cycle) ==
    [phase |-> cycle.current_phase, gdp_growth |-> cycle.gdp_growth,
     unemployment_rate |-> cycle.unemployment_rate,
     interest_rates |-> cycle.interest_rates,
     inflation_rate |-> cycle.inflation_rate,
     market_volatility |-> cycle.market_volatility,
     tech_sector_performance |-> cycle.tech_sector_performance,
     phase_duration |-> cycle.phase_duration]

\* 1.0
One == 1000

\* a / b, rounded to the nearest integer (b > 0)
Quotient(a, b) ==
    IF a >= 0 THEN (2 * a + b) \div (2 * b) ELSE -((2 * (-a) + b) \div (2 * b))

Float(v) == <<"float", v>>
NaN == <<"nan">>

RECURSIVE SumOver(_, _)
SumOver(f, S) ==
    IF S = {} THEN 0
    ELSE LET x == CHOOSE x \in S : TRUE IN f[x] + SumOver(f, S \ {x})

\* dict.get(key, default)
Get(dict, key, default) == IF key \in DOMAIN dict THEN dict[key] ELSE default

\* Mutant of CapChurn: the probability is not capped.
CapChurnNot(probability) == probability

\* min(0.8, ...)
CapChurn(probability) == IF probability < 800 THEN probability ELSE 800

\* VirtualCustomer.update_churn_probability: the new churn_probability
ChurnProbability(customer, market_conditions) ==
    LET base_churn == 100
        satisfaction_impact == Quotient((One - customer.satisfaction) * 3, 10)
        loyalty_impact == Quotient((One - customer.loyalty) * 2, 10)
        market_impact ==
            (IF Get(market_conditions, "competitive_pressure", 0) > 700 THEN 100 ELSE 0)
            + (IF Get(market_conditions, "economic_growth", 0) < 300 THEN 150 ELSE 0)
        price_impact ==
            IF Get(market_conditions, "price_increase", 0) > 0
            THEN Quotient(customer.price_sensitivity
                              * market_conditions["price_increase"] * 2, 10 * One)
            ELSE 0
    IN  CapChurn(base_churn + satisfaction_impact + loyalty_impact
                     + market_impact + price_impact)

\* np.mean of one field over the customers of a population
Mean(data, population, field) ==
    IF population = {} THEN NaN
    ELSE Float(Quotient(SumOver([c \in population |-> data[c][field]], population),
                        Cardinality(population)))

\* The competitors of competitive_landscape, with their strength.
Competitors == {"market_leader", "challenger_1", "challenger_2", "our_company", "others"}

\* The ends of random.uniform(-0.02, 0.02)
ChangeDraws == {-20, 20}

\* Mutant of Clamp: the share is left as perturbed.
ClampNot(share) == share

\* max(0.01, min(0.8, share))
Clamp(share) ==
    IF share < 10 THEN 10 ELSE IF share > 800 THEN 800 ELSE share

\* The first loop of _update_competitive_landscape: each share, changed by
\* its draw and by the recession shift, and clamped.
Perturbed(landscape, gdp_growth, changes) ==
    [c \in Competitors |->
        Clamp(landscape[c].share + changes[c]
                  + (IF gdp_growth < 0
                     THEN (IF landscape[c].strength > 700 THEN 10 ELSE -10)
                     ELSE 0))]

\* Mutant of Normalize: the shares are left as they are.
NormalizeNot(shares) == shares

\* The second loop of _update_competitive_landscape: share / total_share
Normalize(shares) ==
    LET total_share == SumOver(shares, Competitors)
    IN  [c \in Competitors |-> Quotient(shares[c] * One, total_share)]

\* AdvancedMarketSimulator._update_competitive_landscape
UpdatedLandscape(landscape, gdp_growth, changes) ==
    LET shares == Normalize(Perturbed(landscape, gdp_growth, changes))
    IN  [c \in Competitors |-> [landscape[c] EXCEPT !.share = shares[c]]]

\* The state of an AdvancedMarketSimulator.
MarketState ==
    [economic_cycle |-> economic_cycle, virtual_customers |-> virtual_customers,
     customer_data |-> customer_data,
     competitive_landscape |-> competitive_landscape, results |-> None,
     steps |-> <<>>]

\* Mutant of Survivors: the churned customers stay in the population.
SurvivorsAll(population, churned) == population

\* for customer in churned_customers: self.virtual_customers.remove(customer)
Survivors(population, churned) == population \ churned

\* The customers that may churn in a tick that draws transition and
\* indicators: random.random() < churn_probability needs a positive one.
Churnable(m, transition, indicators) ==
    {c \in m.virtual_customers :
        ChurnProbability(m.customer_data[c],
                         get_market_conditions(
                             advance_cycle(m.economic_cycle, transition, indicators))) > 0}

\* What a market tick may draw in market state m: whether a due phase ends,
\* the indicators of the resolved phase (the gdp growth at either end of
\* its range), the customers whose churn draw
\* falls below their new churn probability, and a change per competitor,
\* here one of the given ones.
MarketDrawsWith(m, changes) ==
    UNION {UNION {{[transition |-> t, indicators |-> g, churned |-> ch, changes |-> x] :
                      ch \in SUBSET Churnable(m, t, g), x \in changes} :
                  g \in GdpIndicatorDraws(ResolvedPhase(m.economic_cycle, t))} :
           t \in BOOLEAN}

MarketDraws(m) == MarketDrawsWith(m, [Competitors -> ChangeDraws])

\* The expansion types in the order of the expansion_types dict.
ExpansionTypes == <<"seat_expansion", "feature_upgrade", "additional_products">>

\* Mutant of calculate_expansion_opportunity: the satisfaction and loyalty
\* of the customer are not looked at.
calculate_expansion_opportunity_ungated(customer) ==
    LET values == [seat_expansion |-> customer.size * 1 * customer.expansion_potential,
                   feature_upgrade |-> customer.budget * 2 * customer.expansion_potential,
                   additional_products |->
                       customer.lifetime_value * 3 * customer.expansion_potential]
        best == CHOOSE i \in DOMAIN ExpansionTypes :
                    /\ \A j \in DOMAIN ExpansionTypes :
                           values[ExpansionTypes[j]] <= values[ExpansionTypes[i]]
                    /\ \A j \in 1..(i - 1) :
                           values[ExpansionTypes[j]] < values[ExpansionTypes[i]]
    IN  [potential |-> customer.expansion_potential, type |-> Some(ExpansionTypes[best]),
         value |-> Quotient(values[ExpansionTypes[best]], 10 * One)]

\* VirtualCustomer.calculate_expansion_opportunity; max() returns the first
\* of the types with the greatest value.  The values are compared as
\* size * 0.1, budget * 0.2 and lifetime_value * 0.3, each times the
\* expansion potential, in ten-thousandths.
calculate_expansion_opportunity(customer) ==
    IF customer.satisfaction < 600 \/ customer.loyalty < 400
    THEN [potential |-> 0, type |-> None, value |-> 0]
    ELSE LET values ==
                 [seat_expansion |-> customer.size * 1 * customer.expansion_potential,
                  feature_upgrade |-> customer.budget * 2 * customer.expansion_potential,
                  additional_products |->
                      customer.lifetime_value * 3 * customer.expansion_potential]
             best == CHOOSE i \in DOMAIN ExpansionTypes :
                         /\ \A j \in DOMAIN ExpansionTypes :
                                values[ExpansionTypes[j]] <= values[ExpansionTypes[i]]
                         /\ \A j \in 1..(i - 1) :
                                values[ExpansionTypes[j]] < values[ExpansionTypes[i]]
         IN  [potential |-> customer.expansion_potential,
              type |-> Some(ExpansionTypes[best]),
              value |-> Quotient(values[ExpansionTypes[best]], 10 * One)]

RECURSIVE Ascending(_)
\* The customers of a population in the order of the virtual_customers list.
Ascending(population) ==
    IF population = {} THEN <<>>
    ELSE LET first == CHOOSE c \in population : \A other \in population : c <= other
         IN  <<first>> \o Ascending(population \ {first})

\* The expansion_opportunities list of a tick: of the customers whose churn
\* draw did not fall below their churn probability, those whose expansion
\* has a potential above 0.5.
ExpansionOpportunities(data, population, churned) ==
    LET Opportune(c) ==
            c \notin churned /\ calculate_expansion_opportunity(data[c]).potential > 500
        Listed(c) == [customer |-> c, opportunity |-> calculate_expansion_opportunity(data[c])]
        customers == SelectSeq(Ascending(population), Opportune)
    IN  [i \in DOMAIN customers |-> Listed(customers[i])]

\* What the results of a tick hold under "competitive_landscape": the dict
\* object self.competitive_landscape itself, not a copy of it.  Who reads it
\* through the results reads the landscape as it is at the time of the read.
LiveLandscape == "self.competitive_landscape"

\* AdvancedMarketSimulator.simulate_market_dynamics on market state m with
\* the draws d; results is the dict it returns and steps what it updates or
\* produces, in the order of its statements.
MarketTickOn(m, d) ==
    LET cycle == advance_cycle(m.economic_cycle, d.transition, d.indicators)
        market_conditions == get_market_conditions(cycle)
        data == [c \in DOMAIN m.customer_data |->
                    IF c \in m.virtual_customers
                    THEN [m.customer_data[c] EXCEPT !.churn_probability =
                              ChurnProbability(m.customer_data[c], market_conditions)]
                    ELSE m.customer_data[c]]
        population == Survivors(m.virtual_customers, d.churned)
        total_customers == Cardinality(population)
        churned_customers == Cardinality(d.churned)
        denominator == IF total_customers + churned_customers > 1
                       THEN total_customers + churned_customers ELSE 1
    IN  [economic_cycle |-> cycle,
         virtual_customers |-> population,
         customer_data |-> data,
         competitive_landscape |->
             UpdatedLandscape(m.competitive_landscape, market_conditions["gdp_growth"],
                              d.changes),
         results |->
             [total_customers |-> total_customers,
              churned_customers |-> churned_customers,
              churn_rate |-> Quotient(churned_customers * One, denominator),
              expansion_opportunities |->
                  ExpansionOpportunities(data, m.virtual_customers, d.churned),
              avg_satisfaction |-> Mean(data, population, "satisfaction"),
              avg_loyalty |-> Mean(data, population, "loyalty"),
              competitive_landscape |-> LiveLandscape],
         steps |-> <<"economic_cycle", "virtual_customers", "market_events",
                     "competitive_landscape">>]

\* The assignment of a market state to the variables.
CommitMarket(m) ==
    /\ economic_cycle' = m.economic_cycle
    /\ virtual_customers' = m.virtual_customers
    /\ customer_data' = m.customer_data
    /\ competitive_landscape' = m.competitive_landscape

\* _update_organizational_metrics, the performance metrics
UpdatedPerformance(metrics, customer_metrics) ==
    [metrics EXCEPT !.customer_satisfaction = customer_metrics.avg_satisfaction,
                    !.market_share =
                        IF @ + 1 < MarketShareCap THEN @ + 1 ELSE MarketShareCap]

\* _update_organizational_metrics, the organizational health; a holds the
\* averages over the agents' personality states.
UpdatedHealth(health, a) ==
    [health EXCEPT !.morale = Quotient(7 * @ + 3 * a.avg_confidence, 10),
                   !.productivity = Quotient(8 * @ + 2 * (One - a.avg_stress), 10),
                   !.innovation_index = a.innovation_appetite]

\* if len(self.memory) > 100: self.memory = self.memory[-100:]
MemoryCap == 100

\* BaseAgent.add_memory, on the list of the entries' types
add_memory(memory, type) ==
    LET appended == Append(memory, type)
    IN  IF Len(appended) > MemoryCap
        THEN SubSeq(appended, Len(appended) - MemoryCap + 1, Len(appended))
        ELSE appended

RECURSIVE Remembered(_, _)
\* add_memory of each type of a sequence, in order
Remembered(memory, types) ==
    IF types = <<>> THEN memory
    ELSE Remembered(add_memory(memory, Head(types)), Tail(types))

\* The entries one accepted task leaves in the agent's memory: assign_task,
\* process_task (an LLM call that fails adds an error entry), complete_task.
TaskEntries(llm_fails) ==
    IF llm_fails THEN <<"task_assignment", "error", "task_completion">>
    ELSE <<"task_assignment", "task_completion">>

RECURSIVE Repeated(_, _)
Repeated(types, n) == IF n = 0 THEN <<>> ELSE types \o Repeated(types, n - 1)

\* What a day draws for the agents: how many of the agent's one to three
\* daily tasks assign_task accepts, whether its LLM calls fail, whether it
\* takes part in the first collaboration drawn, and the averages of the
\* agents' confidence, stress and innovation appetite, each in [0, 1].
AgentDraws ==
    [accepted : 0..3, llm_fails : BOOLEAN, collaborates : BOOLEAN,
     avg_confidence : {0, One}, avg_stress : {0, One},
     innovation_appetite : {0, One}]

\* _process_daily_agent_activities and the collaborate call of
\* _process_collaborations, on the agent's memory
ActiveMemory(memory, a, collaboration) ==
    Remembered(memory,
               Repeated(TaskEntries(a.llm_fails), a.accepted)
                   \o (IF collaboration /\ a.collaborates /\ a.llm_fails
                       THEN <<"error">> ELSE <<>>))

\* The text responder's backend: Config.OPENAI_API_KEY is not set and the
\* agent has no client, the client answers, or a statement of the try block
\* raises an Exception.
Backends == {"unavailable", "responds", "fails"}

\* Mutant of communicate_with_llm: no except clause.
communicate_with_llm_uncaught(memory, backend) ==
    CASE backend = "unavailable" ->
             [ret |-> Some("[Simulated response]"), raised |-> "", memory |-> memory]
      [] backend = "fails" ->
             [ret |-> None, raised |-> "Exception", memory |-> memory]
      [] OTHER ->
             [ret |-> Some("response_text"), raised |-> "", memory |-> memory]

\* BaseAgent.communicate_with_llm: what it returns or raises, and the
\* agent's memory after it.
communicate_with_llm(memory, backend) ==
    IF backend = "unavailable"
    THEN [ret |-> Some("[Simulated response]"), raised |-> "", memory |-> memory]
    ELSE LET try == IF backend = "fails"
                    THEN [raised |-> "Exception", response_text |-> None]
                    ELSE [raised |-> "", response_text |-> Some("response_text")]
         IN  IF try.raised # ""
             THEN \* except Exception as e
                  [ret |-> Some("Error communicating with LLM"), raised |-> "",
                   memory |-> add_memory(memory, "error")]
             ELSE [ret |-> try.response_text, raised |-> "", memory |-> memory]

\* BaseAgent.process_task
process_task(memory, backend) ==
    LET response == communicate_with_llm(memory, backend)
    IN  IF response.raised # ""
        THEN [ret |-> None, raised |-> response.raised, memory |-> response.memory]
        ELSE [ret |-> Some([status |-> "completed", response |-> response.ret[1],
                            processed_by |-> "role"]),
              raised |-> "", memory |-> response.memory]

\* One task of _process_daily_agent_activities that assign_task accepts:
\* assign_task, process_task, complete_task.
DailyTask(memory, backend) ==
    LET assigned == add_memory(memory, "task_assignment")
        result == process_task(assigned, backend)
    IN  IF result.raised # ""
        THEN [ret |-> None, raised |-> result.raised, memory |-> result.memory,
              steps |-> <<"assign_task">>]
        ELSE [ret |-> Some([status |-> "completed",
                            success |-> result.ret[1].status = "completed"]),
              raised |-> "", memory |-> add_memory(result.memory, "task_completion"),
              steps |-> <<"assign_task", "process_task", "complete_task">>]

\* BaseAgent.__init__ and AgentPersonality(): no workload, no task, and the
\* default traits.  Of the personality the traits are kept that a task or the
\* workload changes and that the organizational health reads.
NewAgent ==
    [current_workload |-> 0, max_workload |-> 10, active_tasks |-> <<>>,
     completed_tasks |-> 0, failed_tasks |-> 0,
     personality |-> [risk_tolerance |-> 500, stress_level |-> 300,
                      confidence_level |-> 700, innovation_appetite |-> 800]]

\* AgentPersonality.adjust_for_workload
adjust_for_workload(personality, workload_ratio) ==
    IF workload_ratio > 800
    THEN [personality EXCEPT !.stress_level = IF @ + 100 < One THEN @ + 100 ELSE One]
    ELSE IF workload_ratio < 300
    THEN [personality EXCEPT
              !.stress_level = IF @ - 50 > 0 THEN @ - 50 ELSE 0,
              !.innovation_appetite = IF @ + 50 < One THEN @ + 50 ELSE One]
    ELSE personality

\* AgentPersonality.update_from_outcome
update_from_outcome(personality, success, impact_magnitude) ==
    LET confidence == personality.confidence_level
        stress == personality.stress_level
        risk == personality.risk_tolerance
        Part(weight) == Quotient(weight * impact_magnitude, One)
    IN  IF success
        THEN [personality EXCEPT
                  !.confidence_level =
                      IF confidence + Part(50) < One THEN confidence + Part(50) ELSE One,
                  !.stress_level =
                      IF stress - Part(30) > 0 THEN stress - Part(30) ELSE 0,
                  !.risk_tolerance =
                      IF impact_magnitude > 700
                      THEN (IF risk + 20 < One THEN risk + 20 ELSE One)
                      ELSE risk]
        ELSE [personality EXCEPT
                  !.confidence_level =
                      IF confidence - Part(80) > 0 THEN confidence - Part(80) ELSE 0,
                  !.stress_level =
                      IF stress + Part(50) < One THEN stress + Part(50) ELSE One,
                  !.risk_tolerance =
                      IF risk - Part(30) > 0 THEN risk - Part(30) ELSE 0]

\* current_workload / max_workload
WorkloadRatio(a) == Quotient(a.current_workload * One, a.max_workload)

\* Whether assign_task returns False: the agent is at its maximum workload,
\* or the task is of high risk and the agent is risk averse and stressed.
Refuses(a, task) ==
    \/ a.current_workload >= a.max_workload
    \/ /\ task.risk_level = "high"
       /\ a.personality.risk_tolerance < 400
       /\ a.personality.stress_level > 700

\* BaseAgent.assign_task: the agent after the call and what it returns
assign_task(a, task) ==
    IF Refuses(a, task) THEN [agent |-> a, ret |-> FALSE]
    ELSE LET loaded == [a EXCEPT !.active_tasks = Append(@, task),
                                 !.current_workload = @ + task.complexity]
         IN  [agent |-> [loaded EXCEPT !.personality =
                             adjust_for_workload(@, WorkloadRatio(loaded))],
              ret |-> TRUE]

RECURSIVE FirstTask(_, _, _)
\* The loop of complete_task: the position of the first active task with
\* that id, 0 if there is none.
FirstTask(tasks, task_id, i) ==
    IF i > Len(tasks) THEN 0
    ELSE IF tasks[i].id = task_id THEN i
    ELSE FirstTask(tasks, task_id, i + 1)

\* Mutant of complete_task: the task stays in the active list.
complete_task_keeping(a, task_id, success) ==
    LET i == FirstTask(a.active_tasks, task_id, 1)
    IN  IF i = 0 THEN [agent |-> a, ret |-> [status |-> "error"]]
        ELSE LET completed_task == a.active_tasks[i]
                 left == a.current_workload - completed_task.complexity
             IN  [agent |->
                      [a EXCEPT !.current_workload = IF left > 0 THEN left ELSE 0,
                                !.completed_tasks = IF success THEN @ + 1 ELSE @,
                                !.failed_tasks = IF success THEN @ ELSE @ + 1,
                                !.personality =
                                    update_from_outcome(@, success,
                                                        completed_task.importance)],
                  ret |-> [status |-> "completed", task |-> completed_task.id,
                           success |-> success]]

\* BaseAgent.complete_task: the agent after the call and what it returns
complete_task(a, task_id, success) ==
    LET i == FirstTask(a.active_tasks, task_id, 1)
    IN  IF i = 0 THEN [agent |-> a, ret |-> [status |-> "error"]]
        ELSE LET completed_task == a.active_tasks[i]
                 left == a.current_workload - completed_task.complexity
             IN  [agent |->
                      [a EXCEPT !.active_tasks =
                                    SubSeq(@, 1, i - 1) \o SubSeq(@, i + 1, Len(@)),
                                !.current_workload = IF left > 0 THEN left ELSE 0,
                                !.completed_tasks = IF success THEN @ + 1 ELSE @,
                                !.failed_tasks = IF success THEN @ ELSE @ + 1,
                                !.personality =
                                    update_from_outcome(@, success,
                                                        completed_task.importance)],
                  ret |-> [status |-> "completed", task |-> completed_task.id,
                           success |-> success]]

RECURSIVE ProcessedTasks(_, _, _)
\* The task loop of _process_daily_agent_activities: assign_task and, when
\* it accepts, process_task, whose result has the status "completed" whatever
\* the text responder answers, and complete_task, which is therefore called
\* with success = True.
ProcessedTasks(a, daily_tasks, completed_tasks) ==
    IF daily_tasks = <<>> THEN [agent |-> a, completed_tasks |-> completed_tasks]
    ELSE LET task == Head(daily_tasks)
             assigned == assign_task(a, task)
         IN  IF assigned.ret
             THEN LET completion == complete_task(assigned.agent, task.id, TRUE)
                  IN  ProcessedTasks(completion.agent, Tail(daily_tasks),
                                     Append(completed_tasks, completion.ret))
             ELSE ProcessedTasks(a, Tail(daily_tasks), completed_tasks)

\* _process_daily_agent_activities for one agent: the workload adjustment,
\* then the tasks of the day.
DailyActivitiesOn(a, daily_tasks) ==
    ProcessedTasks([a EXCEPT !.personality = adjust_for_workload(@, WorkloadRatio(a))],
                   daily_tasks, <<>>)

\* The tasks _generate_daily_tasks_for_agent gives the agent on a day for
\* the draws a: their ids are the day and the position, and each is of the
\* least complexity and importance and of low risk.
DrawnTasks(day, a) ==
    [i \in 1..a.accepted |->
        [id |-> <<day, i - 1>>, complexity |-> 1, importance |-> 300,
         risk_level |-> "low"]]

\* A call of an agent: op is communicate_with_llm, process_task or
\* _process_daily_agent_activities, outcome what it does.
AgentCall(op, backend, outcome, steps) ==
    /\ agent_memory' = outcome.memory
    /\ IF outcome.raised # ""
       THEN ThrewAfter(op, <<backend>>, outcome.raised, steps)
       ELSE ReturnedAfter(op, <<backend>>, outcome.ret, steps)
    /\ UNCHANGED <<constructed, simulation_day, is_running, daily_snapshots,
                   marketVars, performance_metrics, financial_metrics,
                   organizational_health, agent, memoryVars, commVars, now>>

\* What the rest of a call of the agent leaves alone.
AgentOnly ==
    UNCHANGED <<constructed, simulation_day, is_running, daily_snapshots,
                marketVars, performance_metrics, financial_metrics,
                organizational_health, memoryVars, commVars, now>>

\* _process_daily_agent_activities for the agent, with the tasks of the day
\* and the backend of its text responder; it returns the completions.
process_daily_agent_activities(daily_tasks, backend) ==
    LET out == DailyActivitiesOn(agent, daily_tasks)
    IN  /\ agent' = out.agent
        /\ agent_memory' =
               Remembered(agent_memory,
                          Repeated(TaskEntries(backend = "fails"),
                                   Len(out.completed_tasks)))
        /\ ReturnedAfter("_process_daily_agent_activities", <<daily_tasks, backend>>,
                         Some(out.completed_tasks), <<"adjust_for_workload">>)
        /\ AgentOnly

\* BaseAgent.assign_task, called on the agent
AgentAssignTask(task) ==
    LET out == assign_task(agent, task)
    IN  /\ agent' = out.agent
        /\ agent_memory' = IF out.ret THEN add_memory(agent_memory, "task_assignment")
                           ELSE agent_memory
        /\ Returned("assign_task", <<task>>, Some(out.ret))
        /\ AgentOnly

\* BaseAgent.complete_task, called on the agent
AgentCompleteTask(task_id, success) ==
    LET out == complete_task(agent, task_id, success)
    IN  /\ agent' = out.agent
        /\ agent_memory' = IF out.ret.status = "completed"
                           THEN add_memory(agent_memory, "task_completion")
                           ELSE agent_memory
        /\ Returned("complete_task", <<task_id, success>>, Some(out.ret))
        /\ AgentOnly

\* _update_financial_metrics
UpdatedFinancial(metrics, phase, drawn_revenue) ==
    LET daily_revenue == CASE phase = "recession" -> (drawn_revenue * 7) \div 10
                           [] phase = "boom" -> (drawn_revenue * 13) \div 10
                           [] OTHER -> drawn_revenue
        daily_expenses == metrics.monthly_burn_rate \div DaysPerMonth
        revenue == metrics.revenue + daily_revenue
        expenses == metrics.expenses + daily_expenses
    IN  [metrics EXCEPT !.revenue = revenue, !.expenses = expenses,
                        !.profit = revenue - expenses,
                        !.budget = INITIAL_BUDGET + (revenue - expenses)]

\* OrganizationalMemory has no add_decision: the call raises after
\* is_running was assigned.
start_simulation ==
    /\ is_running' = TRUE
    /\ Threw("start_simulation", <<>>, "AttributeError")
    /\ UNCHANGED <<constructed, simulation_day, daily_snapshots, marketVars,
                   performance_metrics, financial_metrics, orgVars, commVars, now>>

stop_simulation ==
    /\ is_running' = FALSE
    /\ Threw("stop_simulation", <<>>, "AttributeError")
    /\ UNCHANGED <<constructed, simulation_day, daily_snapshots, marketVars,
                   performance_metrics, financial_metrics, orgVars, commVars, now>>

\* Mutant of AdvanceRefused: the guard is gone.
AdvanceRefusedNever == FALSE

\* if not self.is_running
AdvanceRefused == ~is_running

\* advance_day while running.  The steps in order: the day counter, the
\* market (cycle, then churn), the agents, the collaborations (a drawn
\* pattern calls add_lesson_learned, which OrganizationalMemory has not),
\* the negotiations (a drawn negotiation calls mediate_negotiation, which
\* NegotiationSystem has not), the metrics, and the snapshot, which reads
\* communication_system.message_history, an attribute CommunicationSystem
\* has not: the append to daily_snapshots and its cap are never reached.
AdvanceRunning(d, a) ==
    /\ simulation_day' = simulation_day + 1
    /\ IF ~constructed
       THEN /\ UNCHANGED <<marketVars, performance_metrics, financial_metrics,
                           organizational_health, agent_memory, agent>>
            /\ ThrewAfter("advance_day", <<>>, "AttributeError", <<"simulation_day">>)
       ELSE \E collaboration \in BOOLEAN, negotiation \in BOOLEAN,
               drawn_revenue \in DailyRevenues :
                LET m == MarketTickOn(MarketState, d)
                    steps == <<"simulation_day", "simulate_market_dynamics",
                               "_process_daily_agent_activities">>
                IN  /\ CommitMarket(m)
                    /\ agent_memory' = ActiveMemory(agent_memory, a, collaboration)
                    /\ agent' = DailyActivitiesOn(agent, DrawnTasks(simulation_day', a)).agent
                    /\ IF collaboration \/ negotiation
                       THEN /\ UNCHANGED <<performance_metrics, financial_metrics,
                                           organizational_health>>
                            /\ ThrewAfter("advance_day", <<>>, "AttributeError",
                                          IF collaboration THEN steps
                                          ELSE Append(steps, "_process_collaborations"))
                       ELSE /\ organizational_health' =
                                   UpdatedHealth(organizational_health, a)
                            /\ performance_metrics' =
                                   UpdatedPerformance(performance_metrics, m.results)
                            /\ financial_metrics' =
                                   UpdatedFinancial(financial_metrics,
                                                    economic_cycle'.current_phase,
                                                    drawn_revenue)
                            /\ ThrewAfter("advance_day", <<>>, "AttributeError",
                                          steps \o <<"_process_collaborations",
                                                     "_process_negotiations",
                                                     "_update_organizational_metrics",
                                                     "_generate_daily_events",
                                                     "_update_financial_metrics">>)
    /\ UNCHANGED <<constructed, is_running, daily_snapshots, memoryVars,
                   commVars, now>>

\* advance_day; d is what its market tick draws and a what its agents do.
advance_day(d, a) ==
    IF AdvanceRefused
    THEN /\ Returned("advance_day", <<>>, Some("simulation_not_running"))
         /\ UNCHANGED <<simVars, commVars, now>>
    ELSE AdvanceRunning(d, a)

\* crisis_scenarios of inject_crisis: the impact of each crisis type, in
\* the order of the dict
CrisisTypes ==
    <<"market_downturn", "competitor_threat", "key_talent_loss",
      "funding_challenge", "regulatory_change">>

CrisisImpacts ==
    [market_downturn |-> [revenue |-> -300, morale |-> -200, market_share |-> -100],
     competitor_threat |-> [market_share |-> -200, innovation_pressure |-> 300],
     key_talent_loss |-> [productivity |-> -300, morale |-> -400],
     funding_challenge |-> [budget |-> -500, runway |-> -300, stress |-> 400],
     regulatory_change |-> [compliance_cost |-> 200, operational_complexity |-> 300]]

\* Mutant of Scenario: a type that is not known counts as the first one.
ScenarioOrFirst(crisis_type) ==
    IF crisis_type \in DOMAIN CrisisImpacts
    THEN Some(CrisisImpacts[crisis_type])
    ELSE Some(CrisisImpacts[CrisisTypes[1]])

\* if crisis_type in crisis_scenarios: crisis = crisis_scenarios[crisis_type]
Scenario(crisis_type) ==
    IF crisis_type \in DOMAIN CrisisImpacts
    THEN Some(CrisisImpacts[crisis_type])
    ELSE None

\* max(0, min(1, v))
UnitClamp(v) == IF v > One THEN One ELSE IF v < 0 THEN 0 ELSE v

\* The loop over crisis["impact"], on performance_metrics: the metrics of
\* the impact that are keys of it.
ImpactedPerformance(metrics, impact, severity) ==
    [k \in DOMAIN metrics |->
        IF k \in DOMAIN impact
        THEN UnitClamp(metrics[k] + Quotient(impact[k] * severity, One))
        ELSE metrics[k]]

\* Mutant of ImpactedHealth: the impacted metric is not clamped.
ImpactedHealthUnclamped(health, metrics, impact, severity) ==
    [k \in DOMAIN health |->
        IF k \in DOMAIN impact /\ k \notin DOMAIN metrics
        THEN health[k] + Quotient(impact[k] * severity, One)
        ELSE health[k]]

\* The loop over crisis["impact"], on organizational_health: the metrics of
\* the impact that are keys of it and not of performance_metrics.
ImpactedHealth(health, metrics, impact, severity) ==
    [k \in DOMAIN health |->
        IF k \in DOMAIN impact /\ k \notin DOMAIN metrics
        THEN UnitClamp(health[k] + Quotient(impact[k] * severity, One))
        ELSE health[k]]

\* OrganizationalSimulator.inject_crisis.  A type that is not known returns
\* the list of the known ones.  A known type applies its impacts, adds a
\* crisis entry to every agent's memory and calls add_decision, which
\* OrganizationalMemory has not: the decision record is never stored and
\* nothing is returned.  On an object whose __init__ raised, the loop's
\* first read of performance_metrics raises.
inject_crisis(crisis_type, severity) ==
    LET crisis == Scenario(crisis_type)
    IN  IF crisis = None
        THEN /\ Returned("inject_crisis", <<crisis_type, severity>>,
                         Some([status |-> "unknown_crisis_type",
                               available_types |-> CrisisTypes]))
             /\ UNCHANGED <<simVars, commVars, now>>
        ELSE /\ IF constructed
                THEN /\ performance_metrics' =
                            ImpactedPerformance(performance_metrics, crisis[1], severity)
                     /\ organizational_health' =
                            ImpactedHealth(organizational_health, performance_metrics,
                                           crisis[1], severity)
                     /\ agent_memory' = add_memory(agent_memory, "crisis")
                ELSE UNCHANGED <<performance_metrics, organizational_health,
                                 agent_memory>>
             /\ Threw("inject_crisis", <<crisis_type, severity>>, "AttributeError")
             /\ UNCHANGED <<constructed, simulation_day, is_running, daily_snapshots,
                            marketVars, financial_metrics, agent, memoryVars,
                            commVars, now>>

\* AdvancedMarketSimulator.simulate_market_dynamics; the call records its
\* draws and returns the customer metrics of its result.
simulate_market_dynamics(d) ==
    LET m == MarketTickOn(MarketState, d)
    IN  /\ CommitMarket(m)
        /\ ReturnedAfter("simulate_market_dynamics", <<d>>, Some(m.results), m.steps)
        /\ UNCHANGED <<constructed, simulation_day, is_running, daily_snapshots,
                       performance_metrics, financial_metrics, orgVars, commVars, now>>

\* VirtualCustomer.update_churn_probability, called on one customer
update_churn_probability(customer, market_conditions) ==
    /\ customer_data' =
           [customer_data EXCEPT ![customer].churn_probability =
                ChurnProbability(customer_data[customer], market_conditions)]
    /\ Returned("update_churn_probability", <<customer, market_conditions>>, None)
    /\ UNCHANGED <<constructed, simulation_day, is_running, daily_snapshots,
                   economic_cycle, virtual_customers, competitive_landscape,
                   performance_metrics, financial_metrics, orgVars, commVars, now>>

----------------------------------------------------------------------------
(* OrganizationalMemory.  A text is a sequence of characters; the payload  *)
(* of a record is the dict the caller passes: its text and, for a lesson,  *)
(* its category if it has one.  A series of performance_history is a       *)
(* sequence of entries, and the dict maps the metrics recorded so far.     *)

\* Every variable but those of the OrganizationalMemory, the uuid counter
\* and the call.
otherVars == <<constructed, simulation_day, is_running, daily_snapshots,
               marketVars, performance_metrics, financial_metrics,
               organizational_health, agent_memory, agent, messages, message_queues,
               notifications, meeting_rooms, active_negotiations,
               resolution_history, dicts, now>>

\* seq[-n:]: the last n elements for a positive n, the whole sequence for
\* n = 0, the sequence without its first -n elements for a negative n.
TailFrom(seq, n) ==
    IF n > 0
    THEN SubSeq(seq, (IF Len(seq) > n THEN Len(seq) - n ELSE 0) + 1, Len(seq))
    ELSE SubSeq(seq, 1 - n, Len(seq))

\* str.lower(), on the letters of the model
Lower(text) ==
    [i \in DOMAIN text |->
        CASE text[i] = "A" -> "a" [] text[i] = "B" -> "b" [] OTHER -> text[i]]

\* needle in hay
IsSubstring(needle, hay) ==
    \E i \in 0..(Len(hay) - Len(needle)) : SubSeq(hay, i + 1, i + Len(needle)) = needle

\* The payload of a record, under the key of its class.
Payload(record) ==
    CASE "decision" \in DOMAIN record -> record.decision
      [] "lesson" \in DOMAIN record -> record.lesson
      [] "practice" \in DOMAIN record -> record.practice
      [] OTHER -> record.event

\* json.dumps(record): the braces stand for the keys, the id and the
\* timestamp; a category is one element of the text.
Dumps(record) ==
    <<"{">> \o Payload(record).text \o Payload(record).category
        \o (IF "category" \in DOMAIN record THEN <<record.category>> ELSE <<>>)
        \o <<"}">>

\* return results[:10]
SearchCap == 10

\* OrganizationalMemory.search_knowledge; category is None or Some(c).
search_knowledge(decisions, lessons, practices, query, category) ==
    LET query_lower == Lower(query)
        Hit(record) == IsSubstring(query_lower, Lower(Dumps(record)))
        InCategory(record) ==
            /\ Hit(record)
            /\ category = None \/ category = Some("") \/ Some(record.category) = category
        Results(type, records) ==
            [i \in DOMAIN records |-> [type |-> type, content |-> records[i]]]
        results == Results("decision", SelectSeq(decisions, Hit))
                       \o Results("lesson", SelectSeq(lessons, InCategory))
                       \o Results("best_practice", SelectSeq(practices, Hit))
    IN  SubSeq(results, 1, IF Len(results) < SearchCap THEN Len(results) ELSE SearchCap)

\* OrganizationalMemory.get_performance_trends
get_performance_trends(history, metric, time_period) ==
    TailFrom(IF metric \in DOMAIN history THEN history[metric] ELSE <<>>, time_period)

\* Keep only last 100 entries per metric
HistoryCap == 100

\* Mutant of Recorded: the series is never cut.
RecordedUncut(series, entry) == Append(series, entry)

\* update_performance_history, on one metric's series
Recorded(series, entry) ==
    LET appended == Append(series, entry)
    IN  IF Len(appended) > HistoryCap THEN TailFrom(appended, HistoryCap) ELSE appended

\* Mutant of store_decision: the new record goes to the head of the log.
store_decision_first(decision) ==
    /\ decisions_archive' =
           <<[id |-> uuids + 1, timestamp |-> now, decision |-> decision]>>
               \o decisions_archive
    /\ uuids' = uuids + 1
    /\ Returned("store_decision", <<decision>>, None)
    /\ UNCHANGED <<lessons_learned, best_practices, organizational_events,
                   performance_history, otherVars>>

\* OrganizationalMemory.store_decision
store_decision(decision) ==
    /\ decisions_archive' =
           Append(decisions_archive,
                  [id |-> uuids + 1, timestamp |-> now, decision |-> decision])
    /\ uuids' = uuids + 1
    /\ Returned("store_decision", <<decision>>, None)
    /\ UNCHANGED <<lessons_learned, best_practices, organizational_events,
                   performance_history, otherVars>>

\* OrganizationalMemory.store_lesson_learned
store_lesson_learned(lesson) ==
    /\ lessons_learned' =
           Append(lessons_learned,
                  [id |-> uuids + 1, timestamp |-> now, lesson |-> lesson,
                   category |-> IF lesson.category = <<>> THEN "general"
                                ELSE lesson.category[1]])
    /\ uuids' = uuids + 1
    /\ Returned("store_lesson_learned", <<lesson>>, None)
    /\ UNCHANGED <<decisions_archive, best_practices, organizational_events,
                   performance_history, otherVars>>

\* OrganizationalMemory.store_best_practice
store_best_practice(practice) ==
    /\ best_practices' =
           Append(best_practices,
                  [id |-> uuids + 1, timestamp |-> now, practice |-> practice])
    /\ uuids' = uuids + 1
    /\ Returned("store_best_practice", <<practice>>, None)
    /\ UNCHANGED <<decisions_archive, lessons_learned, organizational_events,
                   performance_history, otherVars>>

\* OrganizationalMemory.log_event
log_event(event) ==
    /\ organizational_events' =
           Append(organizational_events,
                  [id |-> uuids + 1, timestamp |-> now, event |-> event])
    /\ uuids' = uuids + 1
    /\ Returned("log_event", <<event>>, None)
    /\ UNCHANGED <<decisions_archive, lessons_learned, best_practices,
                   performance_history, otherVars>>

\* OrganizationalMemory.update_performance_history; metrics maps the names
\* it is given to their values.
update_performance_history(metrics) ==
    /\ performance_history' =
           [metric \in DOMAIN performance_history \cup DOMAIN metrics |->
               IF metric \in DOMAIN metrics
               THEN Recorded(IF metric \in DOMAIN performance_history
                             THEN performance_history[metric] ELSE <<>>,
                             [timestamp |-> now, value |-> metrics[metric]])
               ELSE performance_history[metric]]
    /\ Returned("update_performance_history", <<metrics>>, None)
    /\ UNCHANGED <<decisions_archive, lessons_learned, best_practices,
                   organizational_events, uuids, otherVars>>

\* Mutant of Search: the search logs its query as an event.
SearchLogged(query, category) ==
    /\ organizational_events' =
           Append(organizational_events,
                  [id |-> uuids + 1, timestamp |-> now,
                   event |-> [text |-> query, category |-> category]])
    /\ uuids' = uuids + 1
    /\ Returned("search_knowledge", <<query, category>>,
                Some(search_knowledge(decisions_archive, lessons_learned,
                                      best_practices, query, category)))
    /\ UNCHANGED <<decisions_archive, lessons_learned, best_practices,
                   performance_history, otherVars>>

\* A call of search_knowledge
Search(query, category) ==
    /\ Returned("search_knowledge", <<query, category>>,
                Some(search_knowledge(decisions_archive, lessons_learned,
                                      best_practices, query, category)))
    /\ UNCHANGED <<memoryVars, uuids, otherVars>>

\* A call of get_performance_trends
GetTrend(metric, time_period) ==
    /\ Returned("get_performance_trends", <<metric, time_period>>,
                Some(get_performance_trends(performance_history, metric, time_period)))
    /\ UNCHANGED <<memoryVars, uuids, otherVars>>

\* competitive_landscape as AdvancedMarketSimulator.__init__ assigns it
InitialLandscape ==
    [c \in Competitors |->
        CASE c = "market_leader" -> [share |-> 350, strength |-> 900]
          [] c = "challenger_1" -> [share |-> 250, strength |-> 800]
          [] c = "challenger_2" -> [share |-> 200, strength |-> 700]
          [] c = "our_company" -> [share |-> 50, strength |-> 600]
          [] c = "others" -> [share |-> 150, strength |-> 500]]

\* A customer as _generate_virtual_customers draws it: the middle of each
\* random.uniform range.
TypicalCustomer ==
    [satisfaction |-> 600, loyalty |-> 450, price_sensitivity |-> 500,
     churn_probability |-> 100, size |-> 55, budget |-> 27500,
     lifetime_value |-> 61875, expansion_potential |-> 350]

\* The fields of a new AdvancedMarketSimulator with the given economic
\* cycle, customers and landscape.
NewMarket(cycle, data, landscape) ==
    /\ economic_cycle = cycle
    /\ virtual_customers = DOMAIN data
    /\ customer_data = data
    /\ competitive_landscape = landscape

\* EconomicCycleSimulator.__init__
NewCycle ==
    [current_phase |-> "growth", phase_duration |-> 0, interest_rates |-> 50,
     inflation_rate |-> 30, unemployment_rate |-> 40, gdp_growth |-> 25,
     market_volatility |-> 100, tech_sector_performance |-> 800]

\* The fields of a new OrganizationalSimulator but those of its market
\* simulator, with the agent a, whose memory holds the given entries.
NewSchedulerWith(complete, memory, a) ==
    /\ constructed = complete
    /\ simulation_day = 0
    /\ is_running = FALSE
    /\ daily_snapshots = <<>>
    /\ performance_metrics =
           [market_share |-> 0, revenue |-> 0, profit_margin |-> 0,
            customer_satisfaction |-> Float(500), innovation_index |-> 500,
            employee_satisfaction |-> 500]
    /\ financial_metrics = [revenue |-> 0, expenses |-> 0, profit |-> 0,
                            budget |-> INITIAL_BUDGET,
                            monthly_burn_rate |-> MonthlyBurnRate]
    /\ organizational_health =
           [morale |-> 750, productivity |-> 700, innovation_index |-> 650,
            communication_quality |-> 800, decision_velocity |-> 600,
            market_responsiveness |-> 550]
    /\ agent_memory = memory
    /\ agent = a

\* ... whose agent is a new one
NewSchedulerRemembering(complete, memory) == NewSchedulerWith(complete, memory, NewAgent)

\* ... whose agents remember nothing yet.
NewScheduler(complete) == NewSchedulerRemembering(complete, <<>>)

\* OrganizationalMemory.__init__
NewMemory ==
    /\ decisions_archive = <<>>
    /\ lessons_learned = <<>>
    /\ best_practices = <<>>
    /\ organizational_events = <<>>
    /\ performance_history = <<>>

\* The fields of a new OrganizationalSimulator.
NewSimulator(complete) ==
    /\ NewScheduler(complete)
    /\ NewMemory
    /\ NewMarket(NewCycle, [c \in 1..MaxCustomers |-> TypicalCustomer], InitialLandscape)

----------------------------------------------------------------------------
(* The state after CommunicationSystem() and NegotiationSystem(cs), and    *)
(* after OrganizationalSimulator().                                        *)

\* The communication and negotiation systems after construction, when
\* drawn uuid4 values were drawn before.
InitCommAfter(drawn) ==
    /\ messages = <<>>
    /\ message_queues = <<>>
    /\ notifications = <<>>
    /\ meeting_rooms = <<>>
    /\ active_negotiations = <<>>
    /\ resolution_history = <<>>
    /\ dicts = [d \in DictIds |-> [proposed_by |-> None, timestamp |-> None]]
    /\ uuids = drawn
    /\ now = 0
    /\ call = [op |-> "init", args |-> <<>>, ret |-> None, raised |-> "", steps |-> <<>>]

InitComm == InitCommAfter(0)

Init == InitComm /\ NewSimulator(FALSE)

InitSched == InitComm /\ \E complete \in BOOLEAN : NewSimulator(complete)

----------------------------------------------------------------------------
(* The negotiation subsystem: every call of Initiate, AddCounterProposal   *)
(* and Resolve, by either agent, on every negotiation id seen so far and   *)
(* on an id that was never issued.                                         *)

NegotiationIds ==
    DOMAIN active_negotiations
        \cup {resolution_history[i].id : i \in 1..Len(resolution_history)}
        \cup {UnknownId}

\* Initiator and counterparty: two agents, and an agent with itself.
Parties == {<<"CEO", "CFO">>, <<"CFO", "CFO">>}

Initiate ==
    \E parties \in Parties, d \in DictIds :
        /\ Cardinality(NegotiationIds) <= MaxNegotiations
        /\ Len(messages) < MaxNegMessages
        /\ initiate_negotiation(parties[1], parties[2], "budget", d)

AddCounterProposal ==
    \E n \in NegotiationIds, a \in Agents, d \in DictIds :
        /\ Len(messages) < MaxNegMessages
        /\ n \in DOMAIN active_negotiations =>
               Len(active_negotiations[n].proposals) < MaxProposals
        /\ add_counter_proposal(n, a, d)

Resolve ==
    \E n \in NegotiationIds, r \in Resolutions :
        /\ Len(messages) + 2 <= MaxNegMessages
        /\ resolve_negotiation(n, r)

NextNeg == Initiate \/ AddCounterProposal \/ Resolve

SpecNeg == Init /\ [][NextNeg]_vars

----------------------------------------------------------------------------
(* The messaging subsystem.  Each specification below drives the same       *)
(* operations with the inputs its properties are about.                     *)

MessageIds == {messages[i].id : i \in 1..Len(messages)} \cup {UnknownId}
NotificationIds == {notifications[i].id : i \in 1..Len(notifications)} \cup {UnknownId}
Known(message_id) == FirstWithId(messages, message_id, 1) # 0

\* Send, then read: any receiver, a priority below and one above HIGH.
SendToRead ==
    \E r \in Agents, p \in {LOW, HIGH} :
        /\ Len(messages) < MaxMessages
        /\ send_message("CEO", r, "status_update", <<"status">>, "text", p, <<>>)

MarkRead ==
    \E m \in MessageIds, r \in Agents : mark_message_read(m, r)

NextRead == SendToRead \/ MarkRead

SpecRead == Init /\ [][NextRead]_vars

\* Send, then respond: any sender, any responder, two priorities.
SendToRespond ==
    \E s \in Agents, p \in {MEDIUM, URGENT} :
        /\ Len(messages) < MaxMessages
        /\ send_message(s, "CFO", "status_update", <<"status">>, "text", p, <<>>)

Respond ==
    \E m \in MessageIds, s \in Agents :
        /\ Known(m) => Len(messages) < MaxMessages
        /\ respond_to_message(m, "reply", s)

NextRespond == SendToRespond \/ Respond \/ Tick

SpecRespond == Init /\ [][NextRespond]_vars

\* Every priority, and every operation of the messaging subsystem that
\* sends: Send, Respond, Broadcast and the invitations of a meeting.
SendAnyPriority ==
    \E p \in Priority :
        /\ Len(messages) < MaxMessages
        /\ send_message("CEO", "CFO", "status_update", <<"status">>, "text", p, <<>>)

RespondAsCFO ==
    \E m \in MessageIds :
        /\ Known(m) => Len(messages) < MaxMessages
        /\ respond_to_message(m, "reply", "CFO")

RecipientLists == {<<>>, <<"CEO", "CFO">>}

Broadcast ==
    \E l \in RecipientLists, p \in {MEDIUM, CRITICAL} :
        /\ Len(messages) + Len(l) <= MaxMessages
        /\ broadcast_message("CEO", l, "crisis_alert", <<"alert">>, "text", p)

CreateMeeting ==
    \E l \in RecipientLists :
        /\ Cardinality(DOMAIN meeting_rooms) < MaxMeetings
        /\ Len(messages) + Len(l) <= MaxMessages
        /\ create_meeting("CFO", l, <<"review">>, "agenda", now)

Acknowledge ==
    \E n \in NotificationIds : acknowledge_notification(n)

NextNotify == SendAnyPriority \/ RespondAsCFO \/ Broadcast \/ Acknowledge

SpecNotify == Init /\ [][NextNotify]_vars

\* The life of a message: Broadcast to no one, to one agent (the first
\* message of a run), to both and to one agent twice, then MarkRead by
\* either agent and Respond, on every id and on an id that was never issued.
RepeatedRecipientLists == {<<>>, <<"CEO">>, <<"CFO", "CEO">>, <<"CFO", "CFO">>}

BroadcastRepeated ==
    \E l \in RepeatedRecipientLists :
        /\ Len(messages) + Len(l) <= MaxMessages
        /\ Len(l) = 1 => messages = <<>>
        /\ broadcast_message("CEO", l, "status_update", <<"status">>, "text", MEDIUM)

NextMessage == BroadcastRepeated \/ MarkRead \/ RespondAsCFO

SpecMessage == Init /\ [][NextMessage]_vars

\* Every operation that queues a message, together: Send, Respond,
\* Broadcast, the invitations of a meeting and the three negotiation calls,
\* with MarkRead between them.
SendMedium ==
    \E r \in Agents :
        /\ Len(messages) < MaxMessages
        /\ send_message("CEO", r, "status_update", <<"status">>, "text", MEDIUM, <<>>)

BroadcastAlert ==
    \E l \in RecipientLists :
        /\ Len(messages) + Len(l) <= MaxMessages
        /\ broadcast_message("CEO", l, "crisis_alert", <<"alert">>, "text", CRITICAL)

MarkReadAsCFO ==
    \E m \in MessageIds : mark_message_read(m, "CFO")

InitiateBudget ==
    /\ Cardinality(NegotiationIds) <= MaxNegotiations
    /\ Len(messages) < MaxMessages
    /\ initiate_negotiation("CEO", "CFO", "budget", 1)

CounterBudget ==
    \E n \in DOMAIN active_negotiations, a \in Agents :
        /\ Len(messages) < MaxMessages
        /\ Len(active_negotiations[n].proposals) < MaxProposals
        /\ add_counter_proposal(n, a, 1)

ResolveBudget ==
    \E n \in DOMAIN active_negotiations :
        /\ Len(messages) + 2 <= MaxMessages
        /\ resolve_negotiation(n, "terms")

NextComm ==
    \/ SendMedium \/ RespondAsCFO \/ BroadcastAlert \/ CreateMeeting \/ MarkReadAsCFO
    \/ InitiateBudget \/ CounterBudget \/ ResolveBudget

SpecComm == Init /\ [][NextComm]_vars

----------------------------------------------------------------------------
(* The scheduler: Start, Stop and AdvanceDay in any order. *)

\* The market draws of a scheduler tick: every phase, gdp and churn draw,
\* and the same change for every competitor.
SameChanges == {[c \in Competitors |-> x] : x \in ChangeDraws}

\* What the agents of a scheduler tick draw: one task each, no failure.
CalmAgents ==
    {a \in AgentDraws :
        /\ a.accepted = 1 /\ ~a.llm_fails /\ ~a.collaborates
        /\ a.avg_confidence = One /\ a.avg_stress = 0 /\ a.innovation_appetite = One}

AdvanceDay ==
    \E d \in MarketDrawsWith(MarketState, SameChanges), a \in CalmAgents :
        /\ is_running => simulation_day < MaxDays
        /\ advance_day(d, a)

NextSched == start_simulation \/ stop_simulation \/ AdvanceDay

SpecSched == InitSched /\ [][NextSched]_vars

----------------------------------------------------------------------------
(* Crises: inject_crisis of every known type and of types that are not     *)
(* known, at no, half and full severity, between the days of a started     *)
(* scheduler.                                                              *)

CrisisSeverities == {0, 500, One}

UnknownCrisisTypes == {"supply_shock", "MARKET_DOWNTURN"}

\* The crises an agent remembers.
CrisesIn(memory) == Cardinality({i \in DOMAIN memory : memory[i] = "crisis"})

InjectCrisis ==
    \E crisis_type \in {CrisisTypes[i] : i \in DOMAIN CrisisTypes} \cup UnknownCrisisTypes,
       severity \in CrisisSeverities :
        /\ CrisesIn(agent_memory) < MaxCrises
        /\ inject_crisis(crisis_type, severity)

\* Every competitor draws the same loss.
QuietChanges == {[c \in Competitors |-> -20]}

\* A day in which the market is quiet: the phase goes on at the top of its
\* growth, nobody churns.
CrisisDay ==
    \E d \in MarketDrawsWith(MarketState, QuietChanges), a \in CalmAgents :
        /\ ~d.transition /\ d.churned = {}
        /\ \A g \in GdpGrowthDraws(economic_cycle.current_phase) :
               d.indicators.gdp_growth >= g
        /\ is_running => simulation_day < MaxCrisisDays
        /\ advance_day(d, a)

NextCrisis == start_simulation \/ CrisisDay \/ InjectCrisis

SpecCrisis == InitSched /\ [][NextCrisis]_vars

----------------------------------------------------------------------------
(* The market simulator on its own: AdvancedMarketSimulator() and calls of  *)
(* simulate_market_dynamics.  A run is entered at its start and later: in  *)
(* a recession, and with a landscape the leader has come to dominate.      *)

RecessionCycle ==
    [NewCycle EXCEPT !.current_phase = "recession", !.gdp_growth = -30,
                     !.unemployment_rate = 60, !.interest_rates = 0,
                     !.tech_sector_performance = 300]

LeaderLandscape ==
    [c \in Competitors |->
        [InitialLandscape[c] EXCEPT !.share =
            CASE c = "market_leader" -> 780
              [] c = "challenger_1" -> 100
              [] c = "challenger_2" -> 60
              [] c = "our_company" -> 10
              [] c = "others" -> 50]]

InitLandscape ==
    /\ InitComm
    /\ NewScheduler(FALSE)
    /\ NewMemory
    /\ \E cycle \in {NewCycle, RecessionCycle},
          landscape \in {InitialLandscape, LeaderLandscape} :
           NewMarket(cycle, [c \in 1..MaxCustomers |-> TypicalCustomer], landscape)

\* A change for the leader, one for the challengers, one for the rest.
GroupedChanges ==
    {x \in [Competitors -> ChangeDraws] :
        /\ x["challenger_1"] = x["challenger_2"]
        /\ x["our_company"] = x["others"]}

\* A market tick in which no customer churns.
LandscapeTick ==
    \E d \in MarketDrawsWith(MarketState, GroupedChanges) :
        /\ economic_cycle.phase_duration < MaxTicks
        /\ d.churned = {}
        /\ simulate_market_dynamics(d)

NextLandscape == LandscapeTick

SpecLandscape == InitLandscape /\ [][NextLandscape]_vars

----------------------------------------------------------------------------
(* The OrganizationalMemory on its own.  A run is entered at its start or  *)
(* when the decision log already holds one record less than a search       *)
(* returns at most.                                                        *)

Payloads ==
    {[text |-> <<"a">>, category |-> None],
     [text |-> <<"A", "b">>, category |-> Some("finance")]}

Queries == {<<>>, <<"a">>, <<"A">>, <<"b", "finance">>, <<"{">>}

SearchCategories == {None, Some(""), Some("finance"), Some("general")}

\* The decision log after earlier == 0 or SearchCap - 1 calls of
\* store_decision.
InitMemory ==
    \E earlier \in {0, SearchCap - 1} :
        /\ InitCommAfter(earlier)
        /\ NewScheduler(FALSE)
        /\ NewMarket(NewCycle, [c \in 1..MaxCustomers |-> TypicalCustomer],
                     InitialLandscape)
        /\ decisions_archive =
               [i \in 1..earlier |->
                   [id |-> i, timestamp |-> 0,
                    decision |-> [text |-> <<"a">>, category |-> None]]]
        /\ lessons_learned = <<>>
        /\ best_practices = <<>>
        /\ organizational_events = <<>>
        /\ performance_history = <<>>

\* Fewer than MaxRecords records were stored in the run.
MayStore ==
    uuids - (IF uuids >= SearchCap - 1 THEN SearchCap - 1 ELSE 0) < MaxRecords

StoreDecision == \E decision \in Payloads : MayStore /\ store_decision(decision)

StoreLesson == \E lesson \in Payloads : MayStore /\ store_lesson_learned(lesson)

StoreBestPractice == \E practice \in Payloads : MayStore /\ store_best_practice(practice)

LogEvent == \E event \in Payloads : MayStore /\ log_event(event)

SearchAny == \E query \in Queries, category \in SearchCategories : Search(query, category)

RecordRevenue ==
    /\ "revenue" \notin DOMAIN performance_history
    /\ update_performance_history([metric \in {"revenue"} |-> 1])

TrendOfRevenue == GetTrend("revenue", 1)

NextMemory ==
    \/ StoreDecision \/ StoreLesson \/ StoreBestPractice \/ LogEvent
    \/ SearchAny \/ RecordRevenue \/ TrendOfRevenue

SpecMemory == InitMemory /\ [][NextMemory]_vars

\* The performance history: a run is entered at its start or when the
\* revenue series holds one entry less than it keeps at most.
MetricNames == {"revenue", "morale"}

RecordedValues == {1000, 2000}

InitHistory ==
    \E earlier \in {0, HistoryCap - 1} :
        /\ InitComm
        /\ NewScheduler(FALSE)
        /\ NewMarket(NewCycle, [c \in 1..MaxCustomers |-> TypicalCustomer],
                     InitialLandscape)
        /\ decisions_archive = <<>>
        /\ lessons_learned = <<>>
        /\ best_practices = <<>>
        /\ organizational_events = <<>>
        /\ performance_history =
               IF earlier = 0 THEN <<>>
               ELSE [metric \in {"revenue"} |->
                        [i \in 1..earlier |-> [timestamp |-> 0, value |-> i]]]

\* The entries recorded in the run.
RecordingsIn(history) ==
    UNION {{<<metric, i>> : i \in {j \in DOMAIN history[metric] :
                                     history[metric][j].value \in RecordedValues}} :
           metric \in DOMAIN history}

RecordMetrics ==
    \E names \in SUBSET MetricNames \ {{}} :
        \E metrics \in [names -> RecordedValues] :
            /\ Cardinality(RecordingsIn(performance_history)) < MaxRecordings
            /\ update_performance_history(metrics)

TrendOf ==
    \E metric \in MetricNames \cup {"profit"},
       time_period \in {0, 1, 2, HistoryCap, HistoryCap + 1} :
        GetTrend(metric, time_period)

NextHistory == RecordMetrics \/ TrendOf \/ Tick

SpecHistory == InitHistory /\ [][NextHistory]_vars

\* CommunicationSystem.get_communication_analytics at time t, a tick of the
\* clock taken as a day: the counts over the messages of the period.
get_communication_analytics(msgs, t, time_period_days) ==
    LET Recent(msg) == t - msg.created_at <= time_period_days
        recent_messages == SelectSeq(msgs, Recent)
        Count(field, value) ==
            Cardinality({i \in DOMAIN recent_messages : recent_messages[i][field] = value})
        Counts(field) ==
            [value \in {recent_messages[i][field] : i \in DOMAIN recent_messages}
                |-> Count(field, value)]
        responded_messages ==
            Cardinality({i \in DOMAIN recent_messages :
                            recent_messages[i].responded_at # None})
    IN  [total_messages |-> Len(recent_messages),
         messages_by_type |-> Counts("message_type"),
         messages_by_priority |-> Counts("priority"),
         response_rate |-> IF recent_messages # <<>>
                           THEN Quotient(responded_messages * One, Len(recent_messages))
                           ELSE 0,
         most_active_senders |-> Counts("sender_id")]

\* OrganizationalSimulator.get_simulation_state: on the object the
\* constructor left behind, the read of performance_metrics raises.
get_simulation_state ==
    /\ IF constructed
       THEN Returned("get_simulation_state", <<>>,
                     Some([simulation_day |-> simulation_day,
                           is_running |-> is_running,
                           performance_metrics |-> performance_metrics,
                           financial_metrics |-> financial_metrics,
                           organizational_health |-> organizational_health,
                           total_memories |-> Len(agent_memory),
                           market_conditions |-> get_market_conditions(economic_cycle),
                           recent_activity |->
                               IF Len(daily_snapshots) >= 7
                               THEN TailFrom(daily_snapshots, 7)
                               ELSE daily_snapshots]))
       ELSE Threw("get_simulation_state", <<>>, "AttributeError")
    /\ UNCHANGED <<simVars, commVars, now>>

\* Mutant of GetMessages: the messages returned are marked as read.
GetMessagesMarkingRead(agent_id, unread_only) ==
    LET returned == get_messages(messages, message_queues, agent_id, unread_only)
    IN  /\ messages' =
               [i \in DOMAIN messages |->
                   IF \E j \in DOMAIN returned : returned[j] = i
                   THEN [messages[i] EXCEPT !.read_at = Some(now)]
                   ELSE messages[i]]
        /\ Returned("get_messages", <<agent_id, unread_only>>, Some(returned))
        /\ UNCHANGED <<simVars, message_queues, notifications, meeting_rooms,
                       active_negotiations, resolution_history, dicts, uuids, now>>

\* A call of CommunicationSystem.get_messages
GetMessages(agent_id, unread_only) ==
    /\ Returned("get_messages", <<agent_id, unread_only>>,
                Some(get_messages(messages, message_queues, agent_id, unread_only)))
    /\ UNCHANGED <<simVars, commVars, now>>

\* A call of CommunicationSystem.get_communication_analytics
GetAnalytics(time_period_days) ==
    /\ Returned("get_communication_analytics", <<time_period_days>>,
                Some(get_communication_analytics(messages, now, time_period_days)))
    /\ UNCHANGED <<simVars, commVars, now>>

\* The reporting queries between the calls that change what they report:
\* a message sent and read, a negotiation, Start, a quiet day, a lesson
\* stored and a metric recorded.
QueryMessages == \E unread_only \in BOOLEAN : GetMessages("CFO", unread_only)

QueryAnalytics == GetAnalytics(30)

QueryTrend == GetTrend("revenue", 1)

QuerySearch == Search(<<"a">>, None)

SendFirst ==
    /\ messages = <<>>
    /\ send_message("CEO", "CFO", "status_update", <<"status">>, "text", MEDIUM, <<>>)

StoreOneLesson ==
    /\ lessons_learned = <<>>
    /\ store_lesson_learned([text |-> <<"a">>, category |-> None])

NextQuery ==
    \/ get_simulation_state \/ QueryMessages \/ QueryAnalytics \/ QueryTrend
    \/ QuerySearch
    \/ SendFirst \/ MarkReadAsCFO \/ InitiateBudget \/ start_simulation
    \/ CrisisDay \/ StoreOneLesson \/ RecordRevenue

SpecQuery == InitSched /\ [][NextQuery]_vars

\* An agent on its own: its text responder, process_task and the daily
\* task loop, with each backend, on a memory that is empty or one entry
\* short of what it keeps.
InitAgent ==
    \E earlier \in {0, MemoryCap - 1} :
        /\ InitComm
        /\ NewSchedulerRemembering(FALSE, [i \in 1..earlier |-> "general"])
        /\ NewMemory
        /\ NewMarket(NewCycle, [c \in 1..MaxCustomers |-> TypicalCustomer],
                     InitialLandscape)

\* The entries the run has added that the memory still holds.
RememberedIn(memory) == Cardinality({i \in DOMAIN memory : memory[i] # "general"})

CommunicateWithLLM ==
    \E backend \in Backends :
        /\ RememberedIn(agent_memory) < MaxRemembered
        /\ AgentCall("communicate_with_llm", backend,
                     communicate_with_llm(agent_memory, backend), <<>>)

ProcessTask ==
    \E backend \in Backends :
        /\ RememberedIn(agent_memory) < MaxRemembered
        /\ AgentCall("process_task", backend, process_task(agent_memory, backend),
                     <<"communicate_with_llm">>)

ProcessDailyTask ==
    \E backend \in Backends :
        /\ RememberedIn(agent_memory) < MaxRemembered
        /\ AgentCall("_process_daily_agent_activities", backend,
                     DailyTask(agent_memory, backend),
                     DailyTask(agent_memory, backend).steps)

NextAgent == CommunicateWithLLM \/ ProcessTask \/ ProcessDailyTask

SpecAgent == InitAgent /\ [][NextAgent]_vars

\* The working day of an agent: the daily activities of the scheduler's
\* tick, with a text responder that fails, between calls of assign_task and
\* complete_task from outside it.  The
\* agent is a new one, the CFO (risk averse, with a larger maximum workload),
\* or the CFO later in a run, under stress.
CFOAgent ==
    [NewAgent EXCEPT !.max_workload = 12,
                     !.personality.risk_tolerance = 300,
                     !.personality.innovation_appetite = 400]

StressedCFOAgent ==
    [CFOAgent EXCEPT !.personality.stress_level = 800,
                     !.personality.confidence_level = 20]

InitWorkday ==
    \E a \in {NewAgent, CFOAgent, StressedCFOAgent} :
        /\ InitComm
        /\ NewSchedulerWith(TRUE, <<>>, a)
        /\ NewMemory
        /\ NewMarket(NewCycle, [c \in 1..MaxCustomers |-> TypicalCustomer],
                     InitialLandscape)

\* complexity, importance and risk_level as _generate_daily_tasks_for_agent
\* draws them: the least and the greatest of each.
TaskKinds ==
    [light |-> [complexity |-> 1, importance |-> 300, risk_level |-> "low"],
     heavy |-> [complexity |-> 3, importance |-> 900, risk_level |-> "high"]]

\* One to three tasks of a day.
DailyKinds ==
    {<<"light">>, <<"heavy">>, <<"light", "heavy">>, <<"heavy", "heavy", "light">>}

DailyTasks(day, kinds) ==
    [i \in DOMAIN kinds |->
        [id |-> <<day, i - 1>>, complexity |-> TaskKinds[kinds[i]].complexity,
         importance |-> TaskKinds[kinds[i]].importance,
         risk_level |-> TaskKinds[kinds[i]].risk_level]]

\* A task from outside the tick: as much as the base maximum workload, of
\* the greatest importance, with an id no daily task has.
BacklogTasks ==
    {[id |-> <<-1, k>>, complexity |-> 10, importance |-> One, risk_level |-> "low"] :
        k \in 1..MaxBacklog}

TasksDone == agent.completed_tasks + agent.failed_tasks

ProcessDailyActivities ==
    \E kinds \in DailyKinds, backend \in {"fails"} :
        /\ TasksDone + Len(DailyActivitiesOn(agent, DailyTasks(simulation_day + 1, kinds))
                               .completed_tasks) <= MaxTasks
        /\ process_daily_agent_activities(DailyTasks(simulation_day + 1, kinds), backend)

AssignBacklog ==
    \E task \in BacklogTasks :
        /\ \A i \in DOMAIN agent.active_tasks : agent.active_tasks[i].id # task.id
        /\ AgentAssignTask(task)

CompleteBacklog ==
    \E k \in 1..MaxBacklog, success \in BOOLEAN :
        /\ TasksDone < MaxTasks
        /\ AgentCompleteTask(<<-1, k>>, success)

NextWorkday == ProcessDailyActivities \/ AssignBacklog \/ CompleteBacklog

SpecWorkday == InitWorkday /\ [][NextWorkday]_vars

\* The organizational health: days on which the agents are, on average, at
\* full confidence and no stress or the reverse, with one task for the agent,
\* and crises between them.  The agent is a new one, or one later in
\* a run: the CFO under stress, or an agent near full confidence.
ConfidentAgent ==
    [NewAgent EXCEPT !.personality.confidence_level = 990,
                     !.personality.stress_level = 10]

InitHealth ==
    \E a \in {NewAgent, StressedCFOAgent, ConfidentAgent} :
        /\ InitComm
        /\ NewSchedulerWith(TRUE, <<>>, a)
        /\ NewMemory
        /\ NewMarket(NewCycle, [c \in 1..MaxCustomers |-> TypicalCustomer],
                     InitialLandscape)

MoodyAgents ==
    {a \in AgentDraws :
        /\ a.accepted = 1 /\ ~a.llm_fails /\ ~a.collaborates
        /\ a.avg_stress = One - a.avg_confidence
        /\ a.innovation_appetite = a.avg_confidence}

HealthDay ==
    \E d \in MarketDrawsWith(MarketState, QuietChanges), a \in MoodyAgents :
        /\ ~d.transition /\ d.churned = {}
        /\ \A g \in GdpGrowthDraws(economic_cycle.current_phase) :
               d.indicators.gdp_growth >= g
        /\ is_running => simulation_day < MaxCrisisDays
        /\ advance_day(d, a)

\* The crises that name a metric of the organizational health, at half and
\* at full severity.
HealthCrisis ==
    \E crisis_type \in {"market_downturn", "key_talent_loss"}, severity \in {500, One} :
        /\ CrisesIn(agent_memory) < MaxCrises
        /\ inject_crisis(crisis_type, severity)

NextHealth == start_simulation \/ HealthDay \/ HealthCrisis

SpecHealth == InitHealth /\ [][NextHealth]_vars

\* The economic cycle on its own: advance_cycle, called until each phase
\* has lasted some periods longer than it must.
AdvanceCycle ==
    \E drawn \in BOOLEAN :
        \E indicators \in IndicatorDraws(ResolvedPhase(economic_cycle, drawn)) :
            /\ drawn \/ economic_cycle.phase_duration
                             < PhasePeriods(economic_cycle.current_phase) + MaxOverdue
            /\ economic_cycle' = advance_cycle(economic_cycle, drawn, indicators)
            /\ Returned("advance_cycle", <<drawn, indicators>>, None)
            /\ UNCHANGED <<constructed, simulation_day, is_running, daily_snapshots,
                           virtual_customers, customer_data, competitive_landscape,
                           performance_metrics, financial_metrics, orgVars,
                           commVars, now>>

NextCycle == AdvanceCycle

SpecCycle == Init /\ [][NextCycle]_vars

\* The customers: the first one is a typical one, the least or the most
\* content customer there can be (both with a high expansion potential), or
\* one at the thresholds of an expansion.
CustomerProfiles ==
    {TypicalCustomer,
     [TypicalCustomer EXCEPT !.satisfaction = 0, !.loyalty = 0,
                             !.price_sensitivity = One, !.churn_probability = 150,
                             !.expansion_potential = 600],
     [TypicalCustomer EXCEPT !.satisfaction = One, !.loyalty = One,
                             !.price_sensitivity = 0, !.churn_probability = 50,
                             !.expansion_potential = 600],
     [TypicalCustomer EXCEPT !.loyalty = 400, !.expansion_potential = 600],
     [TypicalCustomer EXCEPT !.satisfaction = One, !.loyalty = One,
                             !.expansion_potential = 500]}

InitPopulation ==
    /\ InitComm
    /\ NewScheduler(FALSE)
    /\ NewMemory
    /\ \E profile \in CustomerProfiles :
           NewMarket(NewCycle,
                     [c \in 1..MaxCustomers |->
                         IF c = 1 THEN profile ELSE TypicalCustomer],
                     InitialLandscape)

\* The market_conditions update_churn_probability is called with: none of
\* the keys it reads, and each of them on either side of its threshold.
ChurnConditions ==
    {<<>>,
     [competitive_pressure |-> 800, economic_growth |-> 200, price_increase |-> 500],
     [competitive_pressure |-> 700, economic_growth |-> 300, price_increase |-> -500],
     [price_increase |-> 5000]}

\* A market tick with any churn.
PopulationTick ==
    \E d \in MarketDrawsWith(MarketState, {[c \in Competitors |-> 20]}) :
        /\ economic_cycle.phase_duration < MaxTicks
        /\ simulate_market_dynamics(d)

UpdateChurn ==
    \E mc \in ChurnConditions : update_churn_probability(1, mc)

NextPopulation == PopulationTick \/ UpdateChurn

SpecPopulation == InitPopulation /\ [][NextPopulation]_vars

----------------------------------------------------------------------------
(* Properties of the negotiation subsystem. *)

ArchivedIds == {resolution_history[i].id : i \in 1..Len(resolution_history)}

\* C1: once a negotiation was resolved, every later AddCounterProposal on
\* its id, by any agent and with any proposal, returns false, changes neither
\* the archived negotiation (its proposal sequence included) nor the
\* proposal objects, and sends no message.
C1_NoProposalAfterResolution ==
    [][(call'.op = "add_counter_proposal" /\ call'.args[1] \in ArchivedIds)
         => /\ call'.raised = ""
            /\ call'.ret = Some(FALSE)
            /\ resolution_history' = resolution_history
            /\ active_negotiations' = active_negotiations
            /\ dicts' = dicts
            /\ messages' = messages
            /\ message_queues' = message_queues
            /\ notifications' = notifications]_vars

\* AddCounterProposal was called on a resolved negotiation and refused.
C1_Witness ==
    /\ call.op = "add_counter_proposal"
    /\ call.args[1] \in ArchivedIds
    /\ call.ret = Some(FALSE)
    /\ \E i \in 1..Len(resolution_history) :
           /\ resolution_history[i].id = call.args[1]
           /\ Len(resolution_history[i].proposals) = MaxProposals

\* Where the ids are: a negotiation of the active set is Active and has no
\* resolution, a negotiation of the history is Resolved and has one, and no
\* id is in both places or twice in the history.
C2_OnePlace ==
    /\ \A n \in DOMAIN active_negotiations :
           /\ active_negotiations[n].id = n
           /\ active_negotiations[n].status = "active"
           /\ active_negotiations[n].resolution = None
           /\ n \notin ArchivedIds
    /\ \A i \in 1..Len(resolution_history) :
           /\ resolution_history[i].status = "resolved"
           /\ resolution_history[i].resolution # None
           /\ \A j \in 1..Len(resolution_history) :
                  resolution_history[j].id = resolution_history[i].id => i = j

\* What a step does to them: the id Initiate returns is in the active set,
\* no id leaves both places, an archived negotiation is never changed, and
\* the history grows only by the negotiation a Resolve call names, with the
\* resolution payload of that call.
C2_Step ==
    /\ (call'.op = "initiate_negotiation" /\ call'.ret # None)
           => /\ call'.ret[1] \in DOMAIN active_negotiations'
              /\ call'.ret[1] \notin DOMAIN active_negotiations \cup ArchivedIds
    /\ \A n \in DOMAIN active_negotiations \cup ArchivedIds :
           n \in DOMAIN active_negotiations' \cup ArchivedIds'
    /\ Len(resolution_history') >= Len(resolution_history)
    /\ \A i \in 1..Len(resolution_history) :
           resolution_history'[i] = resolution_history[i]
    /\ Len(resolution_history') > Len(resolution_history)
           => /\ Len(resolution_history') = Len(resolution_history) + 1
              /\ call'.op = "resolve_negotiation"
              /\ resolution_history'[Len(resolution_history')].id = call'.args[1]
              /\ resolution_history'[Len(resolution_history')].resolution
                     = Some(call'.args[2])

\* C2: after any sequence of Initiate, AddCounterProposal and Resolve calls
\* every negotiation id Initiate returned is in exactly one place: in the
\* active set, Active and unresolved, or once in the history, Resolved with
\* exactly the payload of the Resolve call that archived it.
C2_ActiveOrArchived == []C2_OnePlace /\ [][C2_Step]_vars

\* A Resolve call has just archived a negotiation that had a counter-proposal.
C2_Witness ==
    /\ call.op = "resolve_negotiation"
    /\ call.ret = Some(TRUE)
    /\ \E i \in 1..Len(resolution_history) :
           /\ resolution_history[i].id = call.args[1]
           /\ resolution_history[i].resolution = Some(call.args[2])
           /\ Len(resolution_history[i].proposals) > 1
    /\ call.args[1] \notin DOMAIN active_negotiations

\* C3: Resolve on an id that is unknown or already resolved returns false,
\* sends no message and leaves the active set and the history as they were.
C3_ResolveUnknownRefused ==
    [][(call'.op = "resolve_negotiation"
            /\ call'.args[1] \notin DOMAIN active_negotiations)
         => /\ call'.raised = ""
            /\ call'.ret = Some(FALSE)
            /\ active_negotiations' = active_negotiations
            /\ resolution_history' = resolution_history
            /\ messages' = messages
            /\ message_queues' = message_queues
            /\ notifications' = notifications]_vars

\* Resolve was called again on an archived negotiation, with another payload.
C3_Witness ==
    /\ call.op = "resolve_negotiation"
    /\ call.ret = Some(FALSE)
    /\ \E i \in 1..Len(resolution_history) :
           /\ resolution_history[i].id = call.args[1]
           /\ resolution_history[i].resolution # Some(call.args[2])

\* C34: Initiate sends one message from the initiator to the counterparty;
\* a successful AddCounterProposal sends one message from the proposer to
\* the other party of the negotiation (the counterparty if the proposer is
\* the initiator, otherwise the initiator) and never to the proposer; a
\* successful Resolve sends two messages, one to the initiator and one to
\* the counterparty; a refused call sends none.
C34_NegotiationMessages ==
    [][LET sent == Len(messages') - Len(messages)
           new == messages'[Len(messages')]
       IN  /\ (call'.op = "initiate_negotiation" /\ call'.raised = "")
                 => LET negotiation == active_negotiations'[call'.ret[1]]
                    IN  /\ sent = 1
                        /\ new.sender_id = negotiation.initiator
                        /\ new.receiver_id = negotiation.other_party
           /\ (call'.op = "add_counter_proposal" /\ call'.ret = Some(TRUE))
                 => LET negotiation == active_negotiations'[call'.args[1]]
                        proposal == negotiation.proposals[Len(negotiation.proposals)]
                        proposer == dicts'[proposal].proposed_by[1]
                    IN  /\ sent = 1
                        /\ new.sender_id = proposer
                        /\ new.receiver_id = IF proposer = negotiation.initiator
                                             THEN negotiation.other_party
                                             ELSE negotiation.initiator
                        /\ new.receiver_id # proposer
           /\ (call'.op = "resolve_negotiation" /\ call'.ret = Some(TRUE))
                 => LET negotiation == resolution_history'[Len(resolution_history')]
                    IN  /\ sent = 2
                        /\ messages'[Len(messages') - 1].receiver_id = negotiation.initiator
                        /\ new.receiver_id = negotiation.other_party
           /\ (call'.op \in {"add_counter_proposal", "resolve_negotiation"}
                   /\ call'.ret = Some(FALSE))
                 => sent = 0]_vars

\* A successful AddCounterProposal sends its one message to the proposer
\* only when the proposer is the initiator of a negotiation with itself.
C34_SelfNegotiationOnly ==
    [][(call'.op = "add_counter_proposal" /\ call'.ret = Some(TRUE))
         => LET negotiation == active_negotiations'[call'.args[1]]
                new == messages'[Len(messages')]
            IN  /\ Len(messages') = Len(messages) + 1
                /\ new.receiver_id = new.sender_id
                      => /\ negotiation.initiator = negotiation.other_party
                         /\ new.sender_id = negotiation.initiator]_vars

\* C35: in every negotiation, active or archived, every proposal of the
\* proposal sequence, the initial one included, is tagged with its proposer
\* and a timestamp, the proposer is one of the two parties, and the
\* proposals are in the order they were submitted.
C35_ProposalsTagged ==
    \A negotiation \in {active_negotiations[n] : n \in DOMAIN active_negotiations}
                        \cup {resolution_history[i] : i \in DOMAIN resolution_history} :
        LET tags == [i \in DOMAIN negotiation.proposals |->
                        dicts[negotiation.proposals[i]]]
        IN  /\ \A i \in DOMAIN tags :
                   /\ tags[i].proposed_by # None
                   /\ tags[i].timestamp # None
                   /\ tags[i].proposed_by[1] \in {negotiation.initiator,
                                                   negotiation.other_party}
            /\ \A i, j \in DOMAIN tags :
                   (i < j /\ tags[i].timestamp # None /\ tags[j].timestamp # None)
                       => tags[i].timestamp[1] <= tags[j].timestamp[1]

\* Every proposal added by AddCounterProposal is tagged with the agent and
\* the time of the call that added it last; the proposals are kept in the
\* order of the calls.
C35_CounterProposalsTagged ==
    [][(call'.op = "add_counter_proposal" /\ call'.args[1] \in DOMAIN active_negotiations)
         => LET before == active_negotiations[call'.args[1]].proposals
                after == active_negotiations'[call'.args[1]].proposals
                proposal == after[Len(after)]
            IN  /\ after = Append(before, proposal)
                /\ dicts'[proposal].proposed_by # None
                /\ dicts'[proposal].timestamp = Some(now)]_vars

----------------------------------------------------------------------------
(* Properties of the messaging subsystem. *)

\* How many entries of a list of message references carry the given id.
Occurrences(refs, message_id) ==
    Cardinality({k \in 1..Len(refs) : messages[refs[k]].id = message_id})

\* C4: right after Send(sender, receiver, ...) returned the id m, the unread
\* messages of the receiver contain the message with id m exactly once; right
\* after MarkRead(m, receiver) returned true, the unread messages of the
\* receiver do not contain m and all its messages still contain it.
C4_SendThenRead ==
    /\ call.op = "send_message"
           => Occurrences(get_messages(messages, message_queues, call.args[2], TRUE),
                          call.ret[1]) = 1
    /\ (call.op = "mark_message_read" /\ call.ret = Some(TRUE))
           => /\ Occurrences(get_messages(messages, message_queues, call.args[2], TRUE),
                             call.args[1]) = 0
              /\ Occurrences(get_messages(messages, message_queues, call.args[2], FALSE),
                             call.args[1]) = 1

\* MarkRead has just succeeded on one of two messages of the same receiver:
\* the other one is still unread.
C4_Witness ==
    /\ call.op = "mark_message_read"
    /\ call.ret = Some(TRUE)
    /\ Len(get_messages(messages, message_queues, call.args[2], FALSE)) >= 2
    /\ Len(get_messages(messages, message_queues, call.args[2], TRUE)) >= 1

\* Where the messages are: every message of the log is once in the queue of
\* its receiver and in no other queue, and every queue is in send order.
C5_Queued ==
    /\ \A i \in 1..Len(messages) :
           /\ messages[i].receiver_id \in DOMAIN message_queues
           /\ \A a \in DOMAIN message_queues :
                  Cardinality({k \in 1..Len(message_queues[a]) : message_queues[a][k] = i})
                      = IF a = messages[i].receiver_id THEN 1 ELSE 0
    /\ \A a \in DOMAIN message_queues :
           \A k \in 1..Len(message_queues[a]) :
               /\ message_queues[a][k] \in 1..Len(messages)
               /\ k > 1 => message_queues[a][k - 1] < message_queues[a][k]

\* What a step does to them: the log and every queue keep what they hold, in
\* place, and grow at the end only.
C5_Step ==
    /\ Len(messages') >= Len(messages)
    /\ \A i \in 1..Len(messages) :
           /\ messages'[i].id = messages[i].id
           /\ messages'[i].receiver_id = messages[i].receiver_id
    /\ \A a \in DOMAIN message_queues :
           /\ a \in DOMAIN message_queues'
           /\ Len(message_queues'[a]) >= Len(message_queues[a])
           /\ SubSeq(message_queues'[a], 1, Len(message_queues[a])) = message_queues[a]

\* C5: after any sequence of Send, Broadcast, Respond, meeting invitations
\* and negotiation calls, every message of the log is exactly once in the
\* queue of its receiver and in no other queue, every queue is in send order,
\* and no call removes or reorders what is queued.
C5_QueuedOnceInOrder == []C5_Queued /\ [][C5_Step]_vars

\* Resolve has just notified both parties, after the request of Initiate.
C5_Witness ==
    /\ call.op = "resolve_negotiation"
    /\ call.ret = Some(TRUE)
    /\ "CEO" \in DOMAIN message_queues
    /\ "CFO" \in DOMAIN message_queues
    /\ Len(message_queues["CFO"]) >= 2
    /\ Len(message_queues["CEO"]) >= 1

\* C6: Respond with an id that no sent message has returns none, queues no
\* message, creates no notification and changes no message (its read and its
\* responded timestamp included).
C6_RespondUnknown ==
    [][(call'.op = "respond_to_message" /\ ~Known(call'.args[1]))
         => /\ call'.raised = ""
            /\ call'.ret = None
            /\ messages' = messages
            /\ message_queues' = message_queues
            /\ notifications' = notifications]_vars

\* Respond was refused while the log held a message without a response.
C6_Witness ==
    /\ call.op = "respond_to_message"
    /\ call.ret = None
    /\ \E i \in 1..Len(messages) : messages[i].responded_at = None
    /\ \E i \in 1..Len(messages) : messages[i].responded_at # None

\* C7: Respond on a known original succeeds every time, whether or not the
\* original was responded to before: the original's responded timestamp
\* becomes the time of the call, exactly one new message is logged and
\* queued, from the responder to the original's sender with the original's
\* priority, and its id is returned.
C7_RespondKnown ==
    [][(call'.op = "respond_to_message" /\ Known(call'.args[1]))
         => LET i == FirstWithId(messages, call'.args[1], 1)
                n == Len(messages) + 1
                to == messages[i].sender_id
                before == IF to \in DOMAIN message_queues
                          THEN message_queues[to] ELSE <<>>
            IN  /\ call'.raised = ""
                /\ Len(messages') = n
                /\ call'.ret = Some(messages'[n].id)
                /\ \A j \in 1..Len(messages) : messages[j].id # messages'[n].id
                /\ messages'[n].sender_id = call'.args[2]
                /\ messages'[n].receiver_id = to
                /\ messages'[n].priority = messages[i].priority
                /\ messages'[i] = [messages[i] EXCEPT !.responded_at = Some(now)]
                /\ \A j \in 1..Len(messages) : j # i => messages'[j] = messages[j]
                /\ message_queues'[to] = Append(before, n)
                /\ \A a \in DOMAIN message_queues :
                       a # to => message_queues'[a] = message_queues[a]]_vars

\* The same original was responded to twice, at two times: its timestamp is
\* the time of the second response.
C7_Witness ==
    /\ call.op = "respond_to_message"
    /\ call.ret # None
    /\ now = 1
    /\ \E i \in 1..Len(messages) :
           /\ messages[i].id = call.args[1]
           /\ messages[i].responded_at = Some(1)
           /\ \E j, k \in 1..Len(messages) :
                  /\ j < k
                  /\ messages[j].metadata = <<"in_reply_to", messages[i].id>>
                  /\ messages[k].metadata = <<"in_reply_to", messages[i].id>>
                  /\ messages[j].created_at = 0
                  /\ messages[k].created_at = 1

\* The notifications that reference a message.
NotificationsOf(message_id) ==
    {k \in 1..Len(notifications) : notifications[k].message_id = message_id}

\* C8: every sent message of priority High, Urgent or Critical has exactly
\* one notification, addressed to its receiver; a message of priority Low or
\* Medium has none; so the notifications are as many as the sent messages of
\* priority at least High.
C8_NotifiedFromHigh ==
    /\ \A i \in 1..Len(messages) :
           IF messages[i].priority \in {HIGH, URGENT, CRITICAL}
           THEN /\ Cardinality(NotificationsOf(messages[i].id)) = 1
                /\ \A k \in NotificationsOf(messages[i].id) :
                       notifications[k].agent_id = messages[i].receiver_id
           ELSE NotificationsOf(messages[i].id) = {}
    /\ Len(notifications)
           = Cardinality({i \in 1..Len(messages) :
                              messages[i].priority \in {HIGH, URGENT, CRITICAL}})

\* A message of priority High was just sent after one of priority Medium.
C8_Witness ==
    /\ call.op = "send_message"
    /\ call.args[3] = HIGH
    /\ Len(notifications) >= 1
    /\ \E i \in 1..Len(messages) : messages[i].priority = MEDIUM

\* C36: the id, sender, receiver, type, subject, body, priority and creation
\* time of a message never change once it was sent; its read time changes
\* only in a MarkRead(id, reader) whose reader is its receiver, and a
\* MarkRead with an unknown id or another reader returns false and changes
\* nothing; its responded time changes only in a Respond naming its id.
C36_MessageFieldsFrozen ==
    [][/\ Len(messages') >= Len(messages)
       /\ \A i \in 1..Len(messages) :
              /\ \A f \in {"id", "sender_id", "receiver_id", "message_type", "subject",
                            "content", "priority", "created_at"} :
                     messages'[i][f] = messages[i][f]
              /\ messages'[i].read_at # messages[i].read_at
                     => /\ call'.op = "mark_message_read"
                        /\ call'.args = <<messages[i].id, messages[i].receiver_id>>
                        /\ call'.ret = Some(TRUE)
              /\ messages'[i].responded_at # messages[i].responded_at
                     => /\ call'.op = "respond_to_message"
                        /\ call'.args[1] = messages[i].id
       /\ (/\ call'.op = "mark_message_read"
           /\ \A i \in 1..Len(messages) :
                  <<messages[i].id, messages[i].receiver_id>> # call'.args)
              => /\ call'.ret = Some(FALSE)
                 /\ messages' = messages
                 /\ message_queues' = message_queues
                 /\ notifications' = notifications]_vars

\* A message that was read and responded to, right after a MarkRead of it by
\* another reader was refused.
C36_Witness ==
    /\ call.op = "mark_message_read"
    /\ call.ret = Some(FALSE)
    /\ \E i \in 1..Len(messages) :
           /\ messages[i].read_at # None
           /\ messages[i].responded_at # None
           /\ messages[i].id = call.args[1]
           /\ messages[i].receiver_id # call.args[2]

\* C37: Broadcast sends one message per entry of the list of receivers, in
\* list order, and returns the ids of those messages in the same order: an
\* empty list sends nothing, a receiver listed twice gets two messages, and
\* the ids returned are distinct from each other and from every earlier id.
C37_BroadcastInOrder ==
    [][call'.op = "broadcast_message"
         => LET recipient_ids == call'.args[2]
                message_ids == call'.ret[1]
                sent == Len(messages)
            IN  /\ Len(messages') = sent + Len(recipient_ids)
                /\ SubSeq(messages', 1, sent) = messages
                /\ Len(message_ids) = Len(recipient_ids)
                /\ \A k \in 1..Len(recipient_ids) :
                       /\ messages'[sent + k].receiver_id = recipient_ids[k]
                       /\ messages'[sent + k].sender_id = call'.args[1]
                       /\ messages'[sent + k].id = message_ids[k]
                       /\ message_queues'[recipient_ids[k]][
                              Len(message_queues'[recipient_ids[k]])
                                  - Cardinality({j \in k + 1..Len(recipient_ids) :
                                                    recipient_ids[j] = recipient_ids[k]})]
                              = sent + k
                       /\ \A j \in 1..sent + k - 1 :
                              messages'[j].id # message_ids[k]]_vars

\* A Broadcast that named one receiver twice, after an earlier message.
C37_Witness ==
    /\ call.op = "broadcast_message"
    /\ call.args[2] = <<"CFO", "CFO">>
    /\ Len(call.ret[1]) = 2
    /\ Len(messages) = 3

----------------------------------------------------------------------------
(* Properties of the scheduler. *)

\* C9: AdvanceDay while the scheduler is stopped, before any Start or after
\* a Stop, returns the "not running" result and changes neither the day
\* counter, nor the snapshot history, nor the economic cycle, nor the
\* customer population, nor any metric.
C9_StoppedAdvanceRefused ==
    [][(call'.op = "advance_day" /\ ~is_running)
         => /\ call'.raised = ""
            /\ call'.ret = Some("simulation_not_running")
            /\ is_running' = is_running
            /\ simulation_day' = simulation_day
            /\ daily_snapshots' = daily_snapshots
            /\ economic_cycle' = economic_cycle
            /\ virtual_customers' = virtual_customers
            /\ performance_metrics' = performance_metrics
            /\ financial_metrics' = financial_metrics
            /\ organizational_health' = organizational_health]_vars

\* AdvanceDay was refused after a Stop that followed days of running, on a
\* simulator whose market and metrics had moved.
C9_Witness ==
    /\ call.op = "advance_day"
    /\ call.ret = Some("simulation_not_running")
    /\ ~is_running
    /\ simulation_day > 1
    /\ economic_cycle.phase_duration > 1
    /\ financial_metrics.expenses > 0

\* After the first day: day counter 1, one snapshot, of day 1, and a phase
\* that has lasted one period.
C10_FirstDay ==
    (call.op = "advance_day" /\ simulation_day = 1)
        => /\ Len(daily_snapshots) = 1
           /\ daily_snapshots[1].simulation_day = 1
           /\ economic_cycle.phase_duration = 1

\* The day counter moves by one with every AdvanceDay while running and with
\* nothing else.
C10_Step ==
    simulation_day' = IF call'.op = "advance_day" /\ is_running
                      THEN simulation_day + 1 ELSE simulation_day

\* C10: from a fresh engine, after any interleaving of Start, Stop and
\* AdvanceDay the day counter is the number of AdvanceDay calls made while
\* running, which Start and Stop never change; after Start and one
\* AdvanceDay the day counter is 1, exactly one snapshot is recorded, its day
\* is 1, and the economic phase has lasted 1 period.
C10_DayCounter == []C10_FirstDay /\ [][C10_Step]_vars

\* C11: every AdvanceDay made while running appends exactly one snapshot and
\* the history keeps the last 365 of them: it holds min(n, 365) snapshots,
\* of consecutive days that end at the day counter.
C11_SnapshotPerDay ==
    /\ Len(daily_snapshots) = IF simulation_day < 365 THEN simulation_day ELSE 365
    /\ \A i \in 1..Len(daily_snapshots) :
           daily_snapshots[i].simulation_day
               = simulation_day - Len(daily_snapshots) + i

\* C12: on a constructed and started scheduler every AdvanceDay returns a
\* snapshot and raises nothing, whatever is drawn in the tick, and leaves
\* the scheduler running.
C12_TickCompletes ==
    [][(call'.op = "advance_day" /\ constructed /\ is_running)
         => /\ call'.raised = ""
            /\ call'.ret # None
            /\ call'.ret # Some("simulation_not_running")
            /\ is_running']_vars

\* C13: between two AdvanceDay calls, also after one that failed part-way,
\* the day counter is the day of the last snapshot, or 0 without a snapshot.
C13_TickAtomic ==
    simulation_day = IF daily_snapshots = <<>> THEN 0
                     ELSE daily_snapshots[Len(daily_snapshots)].simulation_day

----------------------------------------------------------------------------
(* Properties of the market simulator. *)

\* The sum of the shares of a landscape.
TotalShare(landscape) ==
    SumOver([c \in Competitors |-> landscape[c].share], Competitors)

\* C14: after every landscape update the shares of all competitors sum to
\* 1.0, within the rounding of one quotient per competitor.
C14_SharesSumToOne ==
    call.op = "simulate_market_dynamics"
        => /\ 2 * (TotalShare(competitive_landscape) - One) <= Cardinality(Competitors)
           /\ 2 * (One - TotalShare(competitive_landscape)) <= Cardinality(Competitors)

\* A second update in a row, on shares the first one had moved.
C14_Witness ==
    /\ call.op = "simulate_market_dynamics"
    /\ economic_cycle.phase_duration = 2
    /\ \A c \in Competitors :
           /\ competitive_landscape[c].share # InitialLandscape[c].share
           /\ competitive_landscape[c].share # LeaderLandscape[c].share

\* C15: in every landscape update each perturbed share is clamped to
\* [0.01, 0.8] before the renormalization, whose divisor is therefore never
\* zero, and after it every share is in [0, 1] and strictly positive.
C15_SharesClamped ==
    [][call'.op = "simulate_market_dynamics"
         => LET shares == Perturbed(competitive_landscape, economic_cycle'.gdp_growth,
                                    call'.args[1].changes)
            IN  /\ \A c \in Competitors : shares[c] >= 10 /\ shares[c] <= 800
                /\ SumOver(shares, Competitors) > 0
                /\ \A c \in Competitors :
                       /\ competitive_landscape'[c].share > 0
                       /\ competitive_landscape'[c].share <= One]_vars

\* The update of the leader's landscape in which the leader's share was
\* clamped from 0.81 to 0.8 and the smallest share from -0.01 to 0.01: the
\* shares 0.8, 0.12, 0.08, 0.01 and 0.03, divided by their sum 1.04.
C15_Witness ==
    /\ call.op = "simulate_market_dynamics"
    /\ call.args[1].changes["market_leader"] = 20
    /\ call.args[1].changes["our_company"] = -20
    /\ competitive_landscape["market_leader"].share = 769
    /\ competitive_landscape["challenger_1"].share = 115
    /\ competitive_landscape["challenger_2"].share = 77
    /\ competitive_landscape["our_company"].share = 10
    /\ competitive_landscape["others"].share = 29

\* C16: after every population update, every customer whose satisfaction,
\* loyalty and price sensitivity are in [0, 1] has a churn probability in
\* [0, 0.8], whatever the economic state and the price increase.
C16_ChurnProbabilityBounded ==
    \A c \in DOMAIN customer_data :
        (/\ customer_data[c].satisfaction \in 0..One
         /\ customer_data[c].loyalty \in 0..One
         /\ customer_data[c].price_sensitivity \in 0..One)
            => /\ customer_data[c].churn_probability >= 0
               /\ customer_data[c].churn_probability <= 800

\* The least content customer after an update with a price increase: the
\* sum of the impacts is over 0.8 and the probability is 0.8.
C16_Witness ==
    /\ call.op = "update_churn_probability"
    /\ Get(call.args[2], "price_increase", 0) > 0
    /\ customer_data[1].satisfaction = 0
    /\ customer_data[1].price_sensitivity = One
    /\ customer_data[1].churn_probability = 800

\* C17: in each market tick the survivors and the churned customers
\* partition the population of before the tick, every churned customer is
\* removed, and over any sequence of calls the population never grows and a
\* removed customer never comes back.
C17_PopulationShrinks ==
    [][/\ virtual_customers' \subseteq virtual_customers
       /\ call'.op = "simulate_market_dynamics"
              => LET results == call'.ret[1]
                     churned == call'.args[1].churned
                 IN  /\ results.churned_customers >= 0
                     /\ results.churned_customers = Cardinality(churned)
                     /\ results.total_customers + results.churned_customers
                            = Cardinality(virtual_customers)
                     /\ results.total_customers = Cardinality(virtual_customers')
                     /\ churned \subseteq virtual_customers
                     /\ virtual_customers' = virtual_customers \ churned]_vars

\* A tick in which one customer churned and one stayed.
C17_Witness ==
    /\ call.op = "simulate_market_dynamics"
    /\ call.ret[1].churned_customers = 1
    /\ call.ret[1].total_customers >= 1
    /\ Cardinality(virtual_customers) = call.ret[1].total_customers
    /\ call.args[1].churned \cap virtual_customers = {}

\* C18: when the population is empty after the churn, the market tick
\* completes and its customer statistics, the churn rate and the average
\* satisfaction and loyalty, are defined values and not NaN.
C18_NoNaN ==
    (call.op = "simulate_market_dynamics" /\ virtual_customers = {})
        => /\ call.raised = ""
           /\ call.ret[1].churn_rate \in 0..One
           /\ call.ret[1].avg_satisfaction # NaN
           /\ call.ret[1].avg_loyalty # NaN

\* C30: the economic phase changes only along growth, boom, recession,
\* recovery, growth, and only in an advance whose incremented phase
\* duration exceeds the threshold of the phase it leaves (24, 12, 18, 15);
\* a transition resets the phase duration to 0, any other advance adds
\* exactly 1 to it; stagnation is never entered.
C30_PhaseCycle ==
    /\ [](economic_cycle.current_phase # "stagnation")
    /\ [][call'.op = "advance_cycle"
            => LET old == economic_cycle
                   new == economic_cycle'
                   successor == [growth |-> "boom", boom |-> "recession",
                                 recession |-> "recovery", recovery |-> "growth"]
                   threshold == [growth |-> 24, boom |-> 12, recession |-> 18,
                                 recovery |-> 15]
               IN  \/ /\ new.current_phase = old.current_phase
                      /\ new.phase_duration = old.phase_duration + 1
                   \/ /\ new.current_phase = successor[old.current_phase]
                      /\ new.phase_duration = 0
                      /\ old.phase_duration + 1 > threshold[old.current_phase]]_vars

\* The cycle came back to growth: the recovery ended one period after its
\* fifteenth.
C30_Witness ==
    /\ call.op = "advance_cycle"
    /\ call.args[1]
    /\ economic_cycle.current_phase = "growth"
    /\ economic_cycle.phase_duration = 0

\* C31: an advance redraws every indicator of the economic state (gdp
\* growth, unemployment, interest rate, inflation rate, volatility, sector
\* performance), and each then lies within the bounds of the phase that is
\* current after the advance.
C31_IndicatorsRedrawn ==
    [][call'.op = "advance_cycle"
         => LET drawn == call'.args[2]
                new == economic_cycle'
                bounds ==
                    [growth |-> [gdp_growth |-> <<20, 40>>,
                                 unemployment_rate |-> <<30, 60>>],
                     boom |-> [gdp_growth |-> <<40, 70>>,
                               unemployment_rate |-> <<20, 40>>],
                     recession |-> [gdp_growth |-> <<-30, 10>>,
                                    unemployment_rate |-> <<60, 120>>],
                     recovery |-> [gdp_growth |-> <<10, 30>>,
                                   unemployment_rate |-> <<50, 80>>]]
            IN  /\ \A indicator \in {"gdp_growth", "unemployment_rate", "interest_rates",
                                      "inflation_rate", "market_volatility",
                                      "tech_sector_performance"} :
                       /\ indicator \in DOMAIN drawn
                       /\ new[indicator] = drawn[indicator]
                /\ \A indicator \in DOMAIN bounds[new.current_phase] :
                       /\ new[indicator] >= bounds[new.current_phase][indicator][1]
                       /\ new[indicator] <= bounds[new.current_phase][indicator][2]]_vars

\* The indicators the advance draws lie within the bounds of the phase
\* that is current after it; the inflation rate and the volatility keep
\* the constructor's values.
C31_DrawnWithinBounds ==
    [][call'.op = "advance_cycle"
         => LET new == economic_cycle'
                ranges == IndicatorRanges(new.current_phase)
            IN  /\ \A indicator \in DOMAIN ranges :
                       /\ new[indicator] = call'.args[2][indicator]
                       /\ new[indicator] >= ranges[indicator][1]
                       /\ new[indicator] <= ranges[indicator][2]
                /\ new.inflation_rate = economic_cycle.inflation_rate
                /\ new.market_volatility = economic_cycle.market_volatility]_vars

C38_NothingCommitted ==
    /\ daily_snapshots = <<>>
    /\ (call.op = "simulate_market_dynamics" /\ call.ret # None)
           => /\ call.ret[1].total_customers = Cardinality(virtual_customers)
              /\ call.ret[1].churned_customers = Cardinality(call.args[1].churned)

----------------------------------------------------------------------------
(* Properties of the OrganizationalMemory. *)

\* C21: a search changes nothing in the memory, and the same search, made
\* again before any write, returns the results the first one returned, in
\* the same order.
C21_SearchIdempotent ==
    /\ [](call.op = "search_knowledge"
            => call.ret = Some(search_knowledge(decisions_archive, lessons_learned,
                                                best_practices, call.args[1],
                                                call.args[2])))
    /\ [][call'.op = "search_knowledge"
            => /\ decisions_archive' = decisions_archive
               /\ lessons_learned' = lessons_learned
               /\ best_practices' = best_practices
               /\ organizational_events' = organizational_events
               /\ performance_history' = performance_history]_vars

\* A search returned as many records as it may, with lessons and events in
\* the memory.
C21_Witness ==
    /\ call.op = "search_knowledge"
    /\ Len(call.ret[1]) = 10
    /\ lessons_learned # <<>>
    /\ organizational_events # <<>>

\* C22: a search returns at most 10 records that all contain the query,
\* whatever its case: the matching decisions in insertion order, then the
\* matching lessons, then the matching best practices, as many as fit; and
\* when a category is given, no returned record has another category.
C22_SearchResults ==
    call.op = "search_knowledge"
        => LET results == call.ret[1]
               query == call.args[1]
               category == call.args[2]
               Contains(record) == IsSubstring(Lower(query), Lower(Dumps(record)))
               Wanted(record) ==
                   Contains(record) /\ (category = None \/ record.category = category[1])
               Records(type, records) ==
                   [i \in DOMAIN records |-> [type |-> type, content |-> records[i]]]
               matching ==
                   Records("decision", SelectSeq(decisions_archive, Contains))
                       \o Records("lesson", SelectSeq(lessons_learned, Wanted))
                       \o Records("best_practice", SelectSeq(best_practices, Contains))
           IN  /\ Len(results) <= 10
               /\ \A i \in DOMAIN results : Contains(results[i].content)
               /\ results = SubSeq(matching, 1, IF Len(matching) < 10 THEN Len(matching)
                                                ELSE 10)
               /\ category # None
                     => \A i \in DOMAIN results :
                            "category" \in DOMAIN results[i].content
                                => results[i].content.category = category[1]

\* C23: for every periods >= 0 GetTrend returns the last min(periods,
\* length) entries of the metric's series in recording order, and nothing
\* for a metric that was never recorded.
C23_TrendIsLastEntries ==
    (call.op = "get_performance_trends" /\ call.args[2] >= 0)
        => LET metric == call.args[1]
               series == IF metric \in DOMAIN performance_history
                         THEN performance_history[metric] ELSE <<>>
               n == IF call.args[2] < Len(series) THEN call.args[2] ELSE Len(series)
           IN  call.ret = Some(SubSeq(series, Len(series) - n + 1, Len(series)))

\* C24: a metric's series never holds more than 100 entries; a recording
\* appends its entry to the series of each metric it names and evicts the
\* oldest entries beyond 100, and leaves every other series as it was.
C24_SeriesCapped ==
    /\ [](\A metric \in DOMAIN performance_history :
              Len(performance_history[metric]) <= 100)
    /\ [][call'.op = "update_performance_history"
            => LET metrics == call'.args[1]
                   Before(metric) == IF metric \in DOMAIN performance_history
                                     THEN performance_history[metric] ELSE <<>>
               IN  /\ DOMAIN performance_history' =
                          DOMAIN performance_history \cup DOMAIN metrics
                   /\ \A metric \in DOMAIN performance_history' :
                          LET after == performance_history'[metric]
                              all == Before(metric)
                                         \o <<[timestamp |-> now, value |-> metrics[metric]]>>
                          IN  IF metric \in DOMAIN metrics
                              THEN /\ Len(after) = IF Len(all) < 100 THEN Len(all) ELSE 100
                                   /\ after = SubSeq(all, Len(all) - Len(after) + 1, Len(all))
                              ELSE after = Before(metric)]_vars

\* The revenue series is full and has lost its oldest entry, and another
\* metric has a series of its own.
C24_Witness ==
    /\ "revenue" \in DOMAIN performance_history
    /\ "morale" \in DOMAIN performance_history
    /\ Len(performance_history["revenue"]) = 100
    /\ performance_history["revenue"][1].value = 2
    /\ Len(performance_history["morale"]) = 1

\* C25: the decision, lesson, best-practice and event logs only grow at
\* their end: a store or log call appends one record with a fresh id to
\* its own log, and no step removes, reorders or modifies a record or
\* changes a log other than the one of the call.
C25_LogsAppendOnly ==
    [][LET logs == [store_decision |-> decisions_archive,
                    store_lesson_learned |-> lessons_learned,
                    store_best_practice |-> best_practices,
                    log_event |-> organizational_events]
           logs_after == [store_decision |-> decisions_archive',
                          store_lesson_learned |-> lessons_learned',
                          store_best_practice |-> best_practices',
                          log_event |-> organizational_events']
           ids == UNION {{logs[op][i].id : i \in DOMAIN logs[op]} : op \in DOMAIN logs}
       IN  \A op \in DOMAIN logs :
               IF call'.op = op
               THEN /\ Len(logs_after[op]) = Len(logs[op]) + 1
                    /\ SubSeq(logs_after[op], 1, Len(logs[op])) = logs[op]
                    /\ logs_after[op][Len(logs_after[op])].id \notin ids
               ELSE logs_after[op] = logs[op]]_vars

\* A decision was stored after the earlier ones, and then an event was
\* logged.
C25_Witness ==
    /\ Len(decisions_archive) = 10
    /\ Len(organizational_events) = 1
    /\ call.op = "log_event"

----------------------------------------------------------------------------
(* Properties of the agents' text responder. *)

\* C26: the text responder never raises: without a backend it returns the
\* fixed simulated response and remembers nothing, and when the backend
\* fails it returns an error text and adds exactly one memory entry of type
\* error; process_task then still returns a completed result, and the daily
\* task loop goes on to complete_task.
C26_ResponderNeverRaises ==
    [][call'.op \in {"communicate_with_llm", "process_task",
                     "_process_daily_agent_activities"}
         => LET backend == call'.args[1]
                Kept(memory) ==
                    SubSeq(memory, IF Len(memory) > 100 THEN Len(memory) - 99 ELSE 1,
                           Len(memory))
                response == CASE backend = "unavailable" -> "[Simulated response]"
                              [] backend = "fails" -> "Error communicating with LLM"
                              [] OTHER -> "response_text"
                errors == IF backend = "fails" THEN <<"error">> ELSE <<>>
            IN  /\ call'.raised = ""
                /\ call'.op = "communicate_with_llm"
                      => /\ call'.ret = Some(response)
                         /\ agent_memory' = Kept(agent_memory \o errors)
                /\ call'.op = "process_task"
                      => /\ call'.ret[1].status = "completed"
                         /\ call'.ret[1].response = response
                         /\ agent_memory' = Kept(agent_memory \o errors)
                /\ call'.op = "_process_daily_agent_activities"
                      => /\ call'.steps = <<"assign_task", "process_task", "complete_task">>
                         /\ call'.ret[1].success
                         /\ agent_memory' =
                                Kept(Kept(Kept(agent_memory \o <<"task_assignment">>)
                                              \o errors) \o <<"task_completion">>)]_vars

\* process_task returned a completed result although the backend failed,
\* and the error entry took the place of the oldest entry of a full memory.
C26_Witness ==
    /\ call.op = "process_task"
    /\ call.args[1] = "fails"
    /\ call.ret[1].status = "completed"
    /\ Len(agent_memory) = 100
    /\ agent_memory[100] = "error"
    /\ agent_memory[99] = "error"

----------------------------------------------------------------------------
(* Properties of the reporting queries. *)

\* C27: a call of GetState, GetMessages, GetAnalytics, GetTrend or Search
\* leaves the day counter, the running flag, the metrics, the snapshot
\* history, the message log and queues, the negotiations and the
\* organizational memory as they were.
C27_QueriesReadOnly ==
    [][call'.op \in {"get_simulation_state", "get_messages",
                     "get_communication_analytics", "get_performance_trends",
                     "search_knowledge"}
         => /\ simulation_day' = simulation_day
            /\ is_running' = is_running
            /\ performance_metrics' = performance_metrics
            /\ financial_metrics' = financial_metrics
            /\ organizational_health' = organizational_health
            /\ daily_snapshots' = daily_snapshots
            /\ messages' = messages
            /\ message_queues' = message_queues
            /\ notifications' = notifications
            /\ active_negotiations' = active_negotiations
            /\ resolution_history' = resolution_history
            /\ decisions_archive' = decisions_archive
            /\ lessons_learned' = lessons_learned
            /\ best_practices' = best_practices
            /\ organizational_events' = organizational_events
            /\ performance_history' = performance_history]_vars

\* The unread messages of an agent were returned on a started simulator
\* after a day, with a negotiation open, a lesson stored and a metric recorded.
C27_Witness ==
    /\ call.op = "get_messages"
    /\ call.args[2]
    /\ Len(call.ret[1]) >= 1
    /\ is_running
    /\ simulation_day >= 1
    /\ active_negotiations # <<>>
    /\ lessons_learned # <<>>
    /\ "revenue" \in DOMAIN performance_history

\* C32: a market tick recomputes each customer's churn probability from
\* the customer and the tick's economic state, and the probability depends
\* on that state: for the same customer a boom-range and a recession-range
\* economic state give different churn probabilities (unless both reach
\* the cap).
C32_ChurnFollowsEconomy ==
    [][call'.op = "simulate_market_dynamics"
         => \A c \in virtual_customers :
                /\ customer_data'[c].churn_probability =
                       ChurnProbability(customer_data[c],
                                        get_market_conditions(economic_cycle'))
                /\ \A boom \in IndicatorDraws("boom"),
                      recession \in IndicatorDraws("recession") :
                       LET InPhase(phase, indicators) ==
                               get_market_conditions(
                                   update_economic_indicators(
                                       [economic_cycle' EXCEPT !.current_phase = phase],
                                       indicators))
                           in_boom == ChurnProbability(customer_data[c],
                                                       InPhase("boom", boom))
                           in_recession == ChurnProbability(customer_data[c],
                                                            InPhase("recession", recession))
                       IN  (in_boom < 800 \/ in_recession < 800)
                               => in_boom # in_recession]_vars

\* The churn probability a tick assigns is the same in every economic
\* state: the market term is always 0.15.
C32_ChurnIgnoresEconomy ==
    [][call'.op = "simulate_market_dynamics"
         => \A c \in virtual_customers :
                \A phase \in {"growth", "boom", "recession", "recovery", "stagnation"} :
                    \A indicators \in IndicatorDraws(phase) :
                        customer_data'[c].churn_probability =
                            ChurnProbability(
                                customer_data[c],
                                get_market_conditions(
                                    update_economic_indicators(
                                        [economic_cycle' EXCEPT !.current_phase = phase],
                                        indicators)))]_vars

\* C33: the expansion candidates a market tick reports are exactly the
\* customers that survived its churn draw and have an expansion potential
\* above 0.5, a satisfaction of at least 0.6 and a loyalty of at least 0.4,
\* each once; none of them churned in the tick, and each is tagged with the
\* expansion type of the greatest value.
C33_ExpansionCandidates ==
    [][call'.op = "simulate_market_dynamics"
         => LET listed == call'.ret[1].expansion_opportunities
                churned == virtual_customers \ virtual_customers'
                candidates ==
                    {c \in virtual_customers' :
                        /\ customer_data'[c].expansion_potential > 500
                        /\ customer_data'[c].satisfaction >= 600
                        /\ customer_data'[c].loyalty >= 400}
                Value(c, type) ==
                    CASE type = "seat_expansion" -> customer_data'[c].size * 1
                      [] type = "feature_upgrade" -> customer_data'[c].budget * 2
                      [] type = "additional_products" ->
                             customer_data'[c].lifetime_value * 3
            IN  /\ {listed[i].customer : i \in DOMAIN listed} = candidates
                /\ Len(listed) = Cardinality(candidates)
                /\ \A i \in DOMAIN listed :
                       /\ listed[i].customer \notin churned
                       /\ listed[i].opportunity.type # None
                       /\ \A type \in {"seat_expansion", "feature_upgrade",
                                        "additional_products"} :
                              Value(listed[i].customer, type)
                                  <= Value(listed[i].customer,
                                           listed[i].opportunity.type[1])]_vars

\* A tick reported an expansion candidate while another customer churned.
C33_Witness ==
    /\ call.op = "simulate_market_dynamics"
    /\ Len(call.ret[1].expansion_opportunities) >= 1
    /\ call.ret[1].churned_customers >= 1
    /\ call.ret[1].expansion_opportunities[1].opportunity.type = Some("additional_products")

\* C28: within one market tick the sub-models run in the order economic
\* cycle, customer population, competitive landscape, market events, and
\* the population and the landscape updates both read the economic state
\* that the tick's own cycle advance produced.
C28_TickOrder ==
    [][call'.op = "simulate_market_dynamics"
         => LET market_conditions == get_market_conditions(economic_cycle')
            IN  /\ call'.steps = <<"economic_cycle", "virtual_customers",
                                   "competitive_landscape", "market_events">>
                /\ \A c \in virtual_customers :
                       customer_data'[c].churn_probability =
                           ChurnProbability(customer_data[c], market_conditions)
                /\ competitive_landscape' =
                       UpdatedLandscape(competitive_landscape,
                                        market_conditions.gdp_growth,
                                        call'.args[1].changes)]_vars

\* C29: within one AdvanceDay of a running scheduler the steps run in the
\* order day counter, market dynamics, task lifecycle, collaborations,
\* negotiations, organizational and financial metrics, snapshot commit,
\* and the committed snapshot holds the metric values the tick ends with.
C29_DayOrder ==
    [][(call'.op = "advance_day" /\ is_running)
         => LET Named(step) == step # "_generate_daily_events"
                snapshot == daily_snapshots'[Len(daily_snapshots')]
            IN  /\ SelectSeq(call'.steps, Named) =
                       <<"simulation_day", "simulate_market_dynamics",
                         "_process_daily_agent_activities", "_process_collaborations",
                         "_process_negotiations", "_update_organizational_metrics",
                         "_update_financial_metrics", "_capture_daily_snapshot">>
                /\ Len(daily_snapshots') = Len(daily_snapshots) + 1
                /\ snapshot.simulation_day = simulation_day'
                /\ snapshot.performance_metrics = performance_metrics'
                /\ snapshot.financial_metrics = financial_metrics'
                /\ snapshot.organizational_health = organizational_health']_vars

----------------------------------------------------------------------------
(* Properties of the agents' working day. *)

\* C39: the tasks of a day are closed within the tick: every task the agent
\* accepts is processed and completed in the same tick, so the tick leaves
\* no task of its own active, the active tasks and the workload are what
\* they were before it (none and 0 for a new agent), and the workload is
\* never negative; a task assign_task refuses is not processed and counted
\* neither as completed nor as failed.
C39_TasksClosedInTick ==
    /\ [](agent.current_workload >= 0)
    /\ [][call'.op = "_process_daily_agent_activities"
            => LET daily_tasks == call'.args[1]
                   completions == call'.ret[1]
               IN  /\ agent'.active_tasks = agent.active_tasks
                   /\ \A i \in DOMAIN daily_tasks :
                          FirstTask(agent'.active_tasks, daily_tasks[i].id, 1) = 0
                   /\ agent'.current_workload = agent.current_workload
                   /\ Len(completions) <= Len(daily_tasks)
                   /\ \A k \in DOMAIN completions :
                          /\ completions[k].status = "completed"
                          /\ \E j \in DOMAIN daily_tasks :
                                 daily_tasks[j].id = completions[k].task
                   /\ agent'.completed_tasks + agent'.failed_tasks
                          = agent.completed_tasks + agent.failed_tasks + Len(completions)
                   /\ Len(agent_memory')
                          = Len(agent_memory)
                              + Len(completions) * Len(TaskEntries(call'.args[2] = "fails"))]_vars

\* A tick of three tasks of which the agent, with a task from outside the
\* tick on its hands, refused two and completed one.
C39_Witness ==
    /\ call.op = "_process_daily_agent_activities"
    /\ Len(call.args[1]) = 3
    /\ Len(call.ret[1]) = 1
    /\ Len(agent.active_tasks) = 1
    /\ agent.current_workload = 10
    /\ agent.completed_tasks = 1

----------------------------------------------------------------------------
(* Properties of the crises. *)

\* The crisis types inject_crisis knows.
KnownCrisisTypes ==
    {"market_downturn", "competitor_threat", "key_talent_loss",
     "funding_challenge", "regulatory_change"}

\* C19: inject_crisis with a known crisis type and a severity s in [0, 1]
\* completes; each metric the scenario names that is a performance metric,
\* or else a health metric, becomes its value plus delta * s, clamped to
\* [0, 1]; exactly one decision record is added to the Organizational
\* Memory; and "key_talent_loss" with s > 0 strictly decreases a positive
\* productivity.
C19_CrisisApplied ==
    [][(/\ call'.op = "inject_crisis"
        /\ call'.args[1] \in KnownCrisisTypes
        /\ call'.args[2] \in 0..One)
         => LET impact == CrisisImpacts[call'.args[1]]
                s == call'.args[2]
                Moved(v, delta) ==
                    LET sum == v + Quotient(delta * s, One)
                    IN  IF sum < 0 THEN 0 ELSE IF sum > One THEN One ELSE sum
            IN  /\ call'.raised = ""
                /\ \A k \in DOMAIN impact :
                       IF k \in DOMAIN performance_metrics
                       THEN performance_metrics'[k] = Moved(performance_metrics[k], impact[k])
                       ELSE k \in DOMAIN organizational_health
                                => organizational_health'[k] =
                                       Moved(organizational_health[k], impact[k])
                /\ Len(decisions_archive') = Len(decisions_archive) + 1
                /\ (call'.args[1] = "key_talent_loss" /\ s > 0
                        /\ organizational_health.productivity > 0)
                       => organizational_health'.productivity
                              < organizational_health.productivity]_vars

\* C20: inject_crisis with a crisis type that is not known raises nothing,
\* returns the "unknown type" result that lists the known types, and
\* leaves the performance metrics, the health metrics, the agents'
\* memories and the Organizational Memory as they were.
C20_UnknownCrisisRefused ==
    [][(call'.op = "inject_crisis" /\ call'.args[1] \notin KnownCrisisTypes)
         => /\ call'.raised = ""
            /\ call'.ret # None
            /\ call'.ret[1].status = "unknown_crisis_type"
            /\ {call'.ret[1].available_types[i] :
                   i \in DOMAIN call'.ret[1].available_types} = KnownCrisisTypes
            /\ performance_metrics' = performance_metrics
            /\ organizational_health' = organizational_health
            /\ agent_memory' = agent_memory
            /\ decisions_archive' = decisions_archive]_vars

\* A crisis of a type that is not known was refused on a simulator that a
\* day and an earlier crisis had moved.
C20_Witness ==
    /\ call.op = "inject_crisis"
    /\ call.args[1] \notin KnownCrisisTypes
    /\ call.raised = ""
    /\ call.ret[1].status = "unknown_crisis_type"
    /\ constructed
    /\ simulation_day >= 1
    /\ CrisesIn(agent_memory) >= 1
    /\ organizational_health.morale < 750

\* C40: after any sequence of AdvanceDay and InjectCrisis calls with a
\* severity in [0, 1], every metric of the organizational health is within
\* [0, 1], and so are the confidence and the stress of the agent, whatever
\* its tasks and its workload.
C40_HealthInRange ==
    /\ \A k \in DOMAIN organizational_health :
           organizational_health[k] >= 0 /\ organizational_health[k] <= One
    /\ agent.personality.confidence_level >= 0
    /\ agent.personality.confidence_level <= One
    /\ agent.personality.stress_level >= 0
    /\ agent.personality.stress_level <= One

\* After a day and crises: a crisis has brought the morale down to 0, and the
\* day's task has brought the agent to full confidence and no stress.
C40_Witness ==
    /\ call.op = "inject_crisis"
    /\ simulation_day = 1
    /\ organizational_health.morale = 0
    /\ agent.personality.confidence_level = One
    /\ agent.personality.stress_level = 0

=============================================================================
